---- MODULE Spec2Model ----
(***************************************************************************)
(* Verification model of the NGSolve mini-workshop notebooks:              *)
(*   - parabolic.ipynb: implicit Euler time stepping (TimeStepping,        *)
(*     TimeSteppingVTK and the inline VTK loop),                           *)
(*   - the mean curvature flow notebook: Dziuk's method time loop.         *)
(*                                                                         *)
(* Times (dt, tend, tau, ...) are exact rationals <<numerator,             *)
(* denominator>>.  The entries of vectors and matrices are elements of the *)
(* prime field Z_P, the image of exact rational arithmetic under reduction *)
(* modulo P: every equation between exactly computed values also holds     *)
(* between their images, and the values stay within TLC's 32 bit integers  *)
(* for any number of steps.  Floating-point rounding is not modelled.      *)
(*                                                                         *)
(* The finite element library the notebooks call is modelled by a P1       *)
(* finite element method on a one-dimensional chain of elements: dof =     *)
(* vertex, element e has the dofs e and e+1.                               *)
(***************************************************************************)
EXTENDS Integers, Sequences, FiniteSets, TLC

(***************************************************************************)
(* Exact rational arithmetic (times)                                       *)
(***************************************************************************)
Abs(n) == IF n < 0 THEN -n ELSE n

RECURSIVE GCD(_, _)
GCD(a, b) == IF b = 0 THEN a ELSE GCD(b, a % b)

Rat(n, d) ==
    LET g == GCD(Abs(n), Abs(d))
        s == IF d < 0 THEN -1 ELSE 1
    IN  <<(s * n) \div g, (s * d) \div g>>

RZero == <<0, 1>>
ROne == <<1, 1>>
RHalf == <<1, 2>>
FromInt(n) == <<n, 1>>

RNeg(a) == <<-a[1], a[2]>>

RAdd(a, b) ==
    LET g == GCD(a[2], b[2])
    IN  Rat(a[1] * (b[2] \div g) + b[1] * (a[2] \div g), (a[2] \div g) * b[2])

RSub(a, b) == RAdd(a, RNeg(b))

RMul(a, b) ==
    LET g1 == GCD(Abs(a[1]), b[2])
        g2 == GCD(Abs(b[1]), a[2])
    IN  <<(a[1] \div g1) * (b[1] \div g2), (a[2] \div g2) * (b[2] \div g1)>>

RInv(a) == IF a[1] > 0 THEN <<a[2], a[1]>> ELSE <<-a[2], -a[1]>>

RDiv(a, b) == RMul(a, RInv(b))

RLess(a, b) == a[1] * b[2] < b[1] * a[2]

RLeq(a, b) == a[1] * b[2] <= b[1] * a[2]

\* floor of a nonnegative rational
RFloor(a) == a[1] \div a[2]

(***************************************************************************)
(* Python floats (IEEE 754 binary64) for the time of the mean curvature    *)
(* loop.  A float is a sign and a magnitude; the magnitude is a natural    *)
(* number of units 2^-FracBits, written as its binary digits, lowest       *)
(* first, without leading zeros.  Every operation computes the exact       *)
(* result and rounds it to Precision significant bits, ties to even.       *)
(* Overflow and subnormal numbers do not occur for the values of the       *)
(* notebooks and are not modelled.                                         *)
(***************************************************************************)
Precision == 53
FracBits == 80

Bit(a, k) == IF k <= Len(a) THEN a[k] ELSE 0

\* a without its leading zeros
BNorm(a) ==
    LET top == CHOOSE k \in 0..Len(a) :
                   /\ k = 0 \/ a[k] = 1
                   /\ \A j \in (k + 1)..Len(a) : a[j] = 0
    IN  SubSeq(a, 1, top)

\* binary digits of a natural number
RECURSIVE BitsOf(_)
BitsOf(n) == IF n = 0 THEN <<>> ELSE <<n % 2>> \o BitsOf(n \div 2)

\* a + b, digit by digit: the carry into digit k comes from a lower digit
\* where both are 1 and runs through digits where at least one is 1
BAdd(a, b) ==
    LET n == IF Len(a) < Len(b) THEN Len(b) ELSE Len(a)
        Carry(k) == \E j \in 1..(k - 1) :
                        /\ Bit(a, j) + Bit(b, j) = 2
                        /\ \A i \in (j + 1)..(k - 1) : Bit(a, i) + Bit(b, i) >= 1
        Digit(k) == (Bit(a, k) + Bit(b, k) + (IF Carry(k) THEN 1 ELSE 0)) % 2
    IN  [k \in 1..n |-> Digit(k)] \o (IF Carry(n + 1) THEN <<1>> ELSE <<>>)

\* a - b for a >= b: the borrow from digit k comes from a lower digit where
\* a has 0 and b has 1 and runs through digits where a has no more than b
BSub(a, b) ==
    LET Borrow(k) == \E j \in 1..(k - 1) :
                         /\ Bit(a, j) < Bit(b, j)
                         /\ \A i \in (j + 1)..(k - 1) : Bit(a, i) <= Bit(b, i)
        Digit(k) == (Bit(a, k) + 2 - Bit(b, k) - (IF Borrow(k) THEN 1 ELSE 0)) % 2
    IN  BNorm([k \in 1..Len(a) |-> Digit(k)])

BLess(a, b) ==
    IF Len(a) # Len(b) THEN Len(a) < Len(b)
    ELSE \E k \in 1..Len(a) :
            /\ a[k] < b[k]
            /\ \A j \in (k + 1)..Len(a) : a[j] = b[j]

\* round to nearest with Precision significant bits, ties to even
BRound(a) ==
    IF Len(a) <= Precision THEN a
    ELSE LET k == Len(a) - Precision
             kept == SubSeq(a, k + 1, Len(a))
             sticky == \E j \in 1..(k - 1) : a[j] = 1
             up == a[k] = 1 /\ (sticky \/ kept[1] = 1)
         IN  [j \in 1..k |-> 0] \o (IF up THEN BAdd(kept, <<1>>) ELSE kept)

\* 2^e modulo d
RECURSIVE TwoPowMod(_, _)
TwoPowMod(e, d) ==
    IF e = 0 THEN 1 % d
    ELSE LET h == TwoPowMod(e \div 2, d)
             sq == (h * h) % d
         IN  IF e % 2 = 1 THEN (2 * sq) % d ELSE sq

\* what is left of r/d behind its first k binary digits (r < d)
RemAfter(r, d, k) == (r * TwoPowMod(k, d)) % d

\* the first k binary digits, highest first, of r/d behind the point (r < d)
QuotBits(r, d, k) == [j \in 1..k |-> (2 * RemAfter(r, d, j - 1)) \div d]

Reverse(s) == [j \in 1..Len(s) |-> s[Len(s) + 1 - j]]

FlZero == [neg |-> FALSE, mag |-> <<>>]

\* the float nearest to the rational r: a literal such as 2e-4, or the
\* true division of two integers
Float(r) ==
    LET n == Abs(r[1])
        d == r[2]
        frac == Reverse(QuotBits(n % d, d, FracBits))
        low == IF RemAfter(n % d, d, FracBits) # 0 THEN <<1>> \o Tail(frac) ELSE frac
    IN  [neg |-> r[1] < 0, mag |-> BRound(BNorm(low \o BitsOf(n \div d)))]

FlNeg(x) == IF x.mag = <<>> THEN x ELSE [neg |-> ~x.neg, mag |-> x.mag]

\* x + y
FlAdd(x, y) ==
    IF x.neg = y.neg THEN [neg |-> x.neg, mag |-> BRound(BAdd(x.mag, y.mag))]
    ELSE IF x.mag = y.mag THEN FlZero
    ELSE IF BLess(x.mag, y.mag)
         THEN [neg |-> y.neg, mag |-> BRound(BSub(y.mag, x.mag))]
         ELSE [neg |-> x.neg, mag |-> BRound(BSub(x.mag, y.mag))]

\* x - y
FlSub(x, y) == FlAdd(x, FlNeg(y))

\* x < y
FlLess(x, y) ==
    IF x.neg # y.neg THEN x.neg
    ELSE IF x.neg THEN BLess(y.mag, x.mag) ELSE BLess(x.mag, y.mag)

\* x <= y
FlLeq(x, y) == x = y \/ FlLess(x, y)

(***************************************************************************)
(* Scalars of vectors and matrices: the prime field Z_P                    *)
(***************************************************************************)
P == 46337

FAdd(a, b) == (a + b) % P
FNeg(a) == (P - a) % P
FSub(a, b) == (a + P - b) % P
FMul(a, b) == (a * b) % P

RECURSIVE FPow(_, _)
FPow(a, n) ==
    IF n = 0 THEN 1 % P
    ELSE LET r == FPow(a, n \div 2)
             sq == (r * r) % P
         IN  IF n % 2 = 1 THEN (sq * a) % P ELSE sq

\* a # 0
FInv(a) == FPow(a, P - 2)

FDiv(a, b) == FMul(a, FInv(b))

\* image of an integer and of a rational
FInt(n) == ((n % P) + P) % P
ToField(r) == FDiv(FInt(r[1]), FInt(r[2]))

Zero == FInt(0)
One == FInt(1)

Half == ToField(<<1, 2>>)
Third == ToField(<<1, 3>>)
Sixth == ToField(<<1, 6>>)

RECURSIVE FSum(_)
FSum(s) == IF s = <<>> THEN Zero ELSE FAdd(Head(s), FSum(Tail(s)))

(***************************************************************************)
(* Vectors (BaseVector): sequences of scalars indexed by dof               *)
(***************************************************************************)
VZero(n) == [d \in 1..n |-> Zero]
VAdd(u, w) == [d \in 1..Len(u) |-> FAdd(u[d], w[d])]
VSub(u, w) == [d \in 1..Len(u) |-> FSub(u[d], w[d])]
VScale(c, u) == [d \in 1..Len(u) |-> FMul(c, u[d])]

(***************************************************************************)
(* Mesh and finite element space.  A mesh is the sequence of its vertex    *)
(* coordinates; element e joins the vertices e and e+1; the first vertex   *)
(* is the boundary region "left", the last one the region "right".         *)
(***************************************************************************)
Mesh(coords) == [x |-> coords]

BoundaryRegion(mesh, v) ==
    IF v = 1 THEN "left" ELSE IF v = Len(mesh.x) THEN "right" ELSE "interior"

GetBoundaries(mesh) == {"left", "right"}

\* a space that constrains the dofs of every boundary region, flagged or not
H1AllBoundary(mesh, dirichlet) ==
    [mesh |-> mesh,
     ndof |-> Len(mesh.x),
     free |-> [d \in 1..Len(mesh.x) |-> BoundaryRegion(mesh, d) = "interior"]]

\* a space that numbers the unconstrained dofs only
H1FreeOnly(mesh, dirichlet) ==
    [mesh |-> mesh,
     ndof |-> Cardinality({d \in 1..Len(mesh.x) : BoundaryRegion(mesh, d) \notin dirichlet}),
     free |-> [d \in 1..Len(mesh.x) |-> BoundaryRegion(mesh, d) \notin dirichlet]]

\* H1(mesh, order, dirichlet="..."): one dof per vertex, FreeDofs[d] is
\* false exactly for the dofs on a boundary region named in dirichlet.
H1(mesh, dirichlet) ==
    [mesh |-> mesh,
     ndof |-> Len(mesh.x),
     free |-> [d \in 1..Len(mesh.x) |-> BoundaryRegion(mesh, d) \notin dirichlet]]

FreeDofs(fes) == fes.free

\* GridFunction.Set(cf): nodal interpolation of a coefficient function.
\* Coefficient functions are named; Eval gives the value at a point.
Eval(cf, x) ==
    CASE cf = "zero" -> Zero
      [] cf = "one" -> One
      [] cf = "x" -> x
      [] cf = "x+1" -> FAdd(x, One)
      [] cf = "x*x" -> FMul(x, x)
      [] OTHER -> Zero

Interpolate(cf, fes) == [d \in 1..fes.ndof |-> Eval(cf, fes.mesh.x[d])]

(***************************************************************************)
(* Sparse matrices: a pattern (sequence of (row, col) pairs in row-major   *)
(* order) and the value array AsVector() of the same length.               *)
(***************************************************************************)
AllPairs(n) == [k \in 1..(n * n) |-> <<((k - 1) \div n) + 1, ((k - 1) % n) + 1>>]

\* Two dofs couple when they share an element.  BilinearForm(symmetric=True)
\* stores the lower triangle only.
Pattern(fes, symmetric) ==
    SelectSeq(AllPairs(fes.ndof),
              LAMBDA p : Abs(p[1] - p[2]) <= 1 /\ (symmetric => p[2] <= p[1]))

nze(mat) == Len(mat.pat)

AsVector(mat) == mat.val

Entry(mat, i, j) ==
    LET p == IF mat.symmetric /\ j > i THEN <<j, i>> ELSE <<i, j>>
        ks == {k \in DOMAIN mat.pat : mat.pat[k] = p}
    IN  IF ks = {} THEN Zero ELSE mat.val[CHOOSE k \in ks : TRUE]

\* mat * u
MatVec(mat, u) ==
    [i \in 1..Len(u) |-> FSum([j \in 1..Len(u) |-> FMul(Entry(mat, i, j), u[j])])]

\* m.mat.CreateMatrix(): a matrix of the same format, values zero
CreateMatrix(mat) ==
    [pat |-> mat.pat, val |-> [k \in DOMAIN mat.pat |-> Zero], symmetric |-> mat.symmetric]

(***************************************************************************)
(* Assembly.  A bilinear form is mass*u*v + diff*grad(u)*grad(v) +         *)
(* wind*grad(u)*v; geom gives the vertex positions the integrals are       *)
(* taken on (reference positions plus deformation).                        *)
(***************************************************************************)
Form(mass, diff, wind) == [mass |-> mass, diff |-> diff, wind |-> wind]

FormAdd(f1, c, f2) ==
    Form(FAdd(f1.mass, FMul(c, f2.mass)), FAdd(f1.diff, FMul(c, f2.diff)),
         FAdd(f1.wind, FMul(c, f2.wind)))

Jacobian(geom, e) == FSub(geom[e + 1], geom[e])

\* an element with vanishing Jacobian cannot be integrated on
Degenerate(geom) == \E e \in 1..(Len(geom) - 1) : Jacobian(geom, e) = Zero

\* element matrix entry for the global dofs i, j of element e
\* (elements are taken with the orientation of the chain: the measure of
\* element e is its Jacobian)
Local(form, geom, e, i, j) ==
    LET J == Jacobian(geom, e)
        massL == FMul(form.mass, FMul(J, IF i = j THEN Third ELSE Sixth))
        diffL == FMul(form.diff, FDiv(IF i = j THEN One ELSE FNeg(One), J))
        windL == FMul(form.wind, IF j = e + 1 THEN Half ELSE FNeg(Half))
    IN  FAdd(massL, FAdd(diffL, windL))

\* global entry: the sum of the contributions of all elements holding i and j
Scatter(form, geom, i, j) ==
    FSum([e \in 1..(Len(geom) - 1) |->
            IF {i, j} \subseteq {e, e + 1} THEN Local(form, geom, e, i, j) ELSE Zero])

Assemble(form, fes, symmetric, geom) ==
    LET pat == Pattern(fes, symmetric)
    IN  [pat |-> pat,
         val |-> [k \in DOMAIN pat |-> Scatter(form, geom, pat[k][1], pat[k][2])],
         symmetric |-> symmetric]

\* LinearForm(coef*v*dx).Assemble(): coef given by its nodal values
AssembleLinear(nodal, geom) ==
    [i \in 1..Len(geom) |->
        FSum([j \in 1..Len(geom) |->
                FMul(Scatter(Form(One, Zero, Zero), geom, i, j), nodal[j])])]

(***************************************************************************)
(* Inverse(freedofs): factorisation of the free-free block, applied as     *)
(*   ( A_FF^-1  0 )                                                        *)
(*   (   0      0 )                                                        *)
(***************************************************************************)
RemoveAt(s, c) == SubSeq(s, 1, c - 1) \o SubSeq(s, c + 1, Len(s))

RECURSIVE Det(_, _, _)
Det(mat, rows, cols) ==
    IF rows = <<>> THEN One
    ELSE FSum([c \in 1..Len(cols) |->
                 LET e == Entry(mat, rows[1], cols[c])
                 IN  IF e = Zero THEN Zero
                     ELSE FMul(IF c % 2 = 1 THEN e ELSE FNeg(e),
                               Det(mat, Tail(rows), RemoveAt(cols, c)))])

FreeList(free) == SelectSeq([d \in DOMAIN free |-> d], LAMBDA d : free[d])

Pos(s, d) == CHOOSE p \in 1..Len(s) : s[p] = d

Singular(mat, free) == Det(mat, FreeList(free), FreeList(free)) = Zero

Factorize(mat, free) ==
    LET F == FreeList(free)
        det == Det(mat, F, F)
        cof(i, j) ==
            LET minor == Det(mat, RemoveAt(F, Pos(F, j)), RemoveAt(F, Pos(F, i)))
            IN  IF (Pos(F, i) + Pos(F, j)) % 2 = 0 THEN minor ELSE FNeg(minor)
    IN  [i \in DOMAIN free |-> [j \in DOMAIN free |->
            IF free[i] /\ free[j] THEN FDiv(cof(i, j), det) ELSE Zero]]

\* Inverse() without the freedofs argument: all dofs are solved for
InverseAllDofs(mat, free) ==
    [free |-> [d \in DOMAIN free |-> TRUE],
     inv |-> Factorize(mat, [d \in DOMAIN free |-> TRUE])]

Inverse(mat, free) == [free |-> free, inv |-> Factorize(mat, free)]

\* inv * r
InvApply(invm, r) ==
    [i \in 1..Len(r) |-> FSum([j \in 1..Len(r) |-> FMul(invm.inv[i][j], r[j])])]

(***************************************************************************)
(* Bounds and input sets                                                   *)
(***************************************************************************)
\* end times of the implicit Euler loops: the multiples of 1/2 up to
\* MaxTendHalves / 2
MaxTendHalves == 6

\* sample counts 1..MaxSamples
MaxSamples == 2

\* radii of the initial sphere of the mean curvature flow: 1..MaxR
MaxR == 2

Tends == {Rat(k, 2) : k \in 0..MaxTendHalves}

Dts == {ROne, RHalf}

StartTimes == {RZero, ROne}

Coords(ints) == [v \in DOMAIN ints |-> FInt(ints[v])]

Meshes == {Mesh(Coords(<<-1, 0, 1, 2>>))}

Winds == {<<0, 1>>, <<1, 1>>}

Diffusions == {<<1, 2>>}

\* coefficient functions for the source term and the initial data
Sources == {"zero", "one"}

InitialData == {"zero", "x+1"}

\* the initial_cond argument: None, the Python number 0, or a
\* CoefficientFunction
InitialConds == {"None", "0", "x*x"}

\* time steps of the mean curvature flow
Taus == {<<1, 4>>, <<1, 8>>, <<1, 100>>}

\* surface meshes of the mean curvature flow, scaled by the radius
SurfaceMeshes(R) == {Mesh(Coords(<<-R, 0, R>>)), Mesh(Coords(<<-R, R, 2 * R>>))}

\* radius and time step of a run: every radius with every time step, and
\* the values of the notebook, R = 1 and tau = 2e-4
Flows == {<<R, step>> : R \in 1..MaxR, step \in Taus} \cup {<<1, <<1, 5000>>>>}

(***************************************************************************)
(* State                                                                   *)
(***************************************************************************)
VARIABLES
    \* parabolic.ipynb
    pc,          \* position in the notebook / in the called function
    variant,     \* which time loop runs
    fes,         \* H1 space (with its mesh and free dofs)
    aform,       \* integrand of the bilinear form a
    dt,          \* time step
    a_mat,       \* a.mat
    m_mat,       \* m.mat
    mstar,       \* mstar
    invmstar,    \* invmstar
    f_vec,       \* f.vec
    u0,          \* the initial data function of the notebook
    gfu,         \* gfu.vec
    tend, t0, nsamples,
    initial_cond,    \* the initial_cond argument of the call
    cnt, time, sample_int,
    gfut,        \* components of the multidim GridFunction gfut
    vtk,         \* calls vtk.Do(time): <<time, gfu.vec at the call>>
    gfu_start,   \* history: gfu.vec when the loop was entered
    nupdates,    \* history: number of executions of gfu.vec.data += ...
    \* mean curvature flow
    mcf_pc,      \* position in the cell of the time loop
    V,           \* VectorH1 space (with the mesh)
    tau, Tend,   \* the values as written; Float(tau), Float(Tend) are the
                 \* floats the loop computes with
    dXh, Idh, Xh,    \* dXh.vec, Idh.vec, Xh.vec
    M_mat,       \* M.mat
    Minv,        \* Minv
    l_vec,       \* l.vec
    mcf_i, mcf_t,    \* i, t
    redraws,     \* number of calls scene.Redraw()
    \* boundary value problems: the Dirichlet tutorial and surface_pdes.ipynb
    bvp_pc,      \* position in the notebook
    bvp_kind,    \* "volume": the Dirichlet tutorial, "surface": surface_pdes.ipynb
    bvp_fes,     \* fes
    bvp_flag,    \* history: the regions named by the dirichlet flag of fes
    fs2,         \* fs2: the space without dirichlet flag
    bvp_terms,   \* the integrands added to the bilinear form a
    bvp_a,       \* a.mat
    bvp_f,       \* f.vec
    bvp_gfu,     \* gfu.vec
    bvp_r,       \* r
    uD,          \* history: gfu.vec after gfu.Set(g, BND)
    raised,      \* the exception a cell ended with, "none" without one
    \* assembly distributed over the threads of the TaskManager
    asm_pc,      \* "scatter" while elements are being assembled, then "done"
    asm_kind,    \* "matrix": M.Assemble(), "vector": l.Assemble()
    asm_form,    \* the bilinear form assembled
    asm_geom,    \* the vertex positions it is assembled on
    asm_queue,   \* the elements no worker has taken yet
    asm_task,    \* per worker: its element and its place in the scatter
    asm_global,  \* the global entries of the matrix or vector
    asm_stored,  \* history: the contributions (element, place) stored
    \* the loop control of TimeStepping in Python floats
    clk_pc,      \* "loop" at the loop test, then "done"
    clk_dt,      \* dt as written
    clk_tend,    \* tend as written
    clk_cnt,     \* cnt
    clk_time,    \* time, a float
    clk_fl,      \* the floats the loop computes from dt and tend alone
    \* the convergence study of surface_pdes.ipynb
    cv_pc,       \* "for" at the loop head, a statement of the body, or "done"
    cv_coarse,   \* the mesh as generated
    cv_num_ref,  \* num_ref
    cv_ref,      \* ref, the loop variable (-1 before the first iteration)
    cv_mesh,     \* mesh
    cv_level,    \* history: the calls of mesh.Refine() so far
    cv_V,        \* V
    cv_a,        \* a.mat
    cv_l,        \* l.vec
    cv_uh,       \* uh.vec
    cv_errs,     \* errs
    cv_stamp,    \* history: cv_level when V, a, l and uh were last built
    cv_built,    \* history: cv_stamp and cv_level at every errs.append
    cv_redraws,  \* history: the calls of scene.Redraw()
    \* a call of compute_eoc and the table of its result
    eoc_pc,      \* "call", "returned", then "shown" or "error"
    eoc_errs,    \* the argument errs
    eoc_fac,     \* the argument fac
    eoc_out,     \* eocs, the array returned
    eoc_table    \* the rows of table

pvars == <<pc, variant, fes, aform, dt, a_mat, m_mat, mstar, invmstar, f_vec, u0,
           gfu, tend, t0, nsamples, initial_cond, cnt, time, sample_int, gfut, vtk,
           gfu_start, nupdates>>

mvars == <<mcf_pc, V, tau, Tend, dXh, Idh, Xh, M_mat, Minv, l_vec, mcf_i, mcf_t,
           redraws>>

bvars == <<bvp_pc, bvp_kind, bvp_fes, bvp_flag, fs2, bvp_terms, bvp_a, bvp_f, bvp_gfu, bvp_r, uD,
           raised>>

\* the variables of the programs other than the two time loops
avars == <<asm_pc, asm_kind, asm_form, asm_geom, asm_queue, asm_task, asm_global,
           asm_stored>>

cvars == <<clk_pc, clk_dt, clk_tend, clk_cnt, clk_time, clk_fl>>

\* the variables of the programs modelled after the boundary value problems
\* and the distributed assembly
kvars == <<cv_pc, cv_coarse, cv_num_ref, cv_ref, cv_mesh, cv_level, cv_V, cv_a,
           cv_l, cv_uh, cv_errs, cv_stamp, cv_built, cv_redraws>>

evars == <<eoc_pc, eoc_errs, eoc_fac, eoc_out, eoc_table>>

wvars == <<cvars, kvars, evars>>

xvars == <<bvars, avars, wvars>>

vars == <<pvars, mvars, xvars>>

setup == <<fes, aform, dt, a_mat, m_mat>>
params == <<tend, t0, nsamples, initial_cond, sample_int>>

NoMatrix == [pat |-> <<>>, val |-> <<>>, symmetric |-> FALSE]
NoInverse == [free |-> <<>>, inv |-> <<>>]
NoSpace == [mesh |-> Mesh(<<>>), ndof |-> 0, free |-> <<>>]

\* m += u*v*dx
MForm == Form(One, Zero, Zero)

\* a += 0.01*grad(u)*grad(v)*dx + b*grad(u)*v*dx
AForm(eps, b) == Form(Zero, ToField(eps), ToField(b))

\* m = BilinearForm(fes, symmetric=True)
MSymmetricLayout == TRUE

\* m = BilinearForm(fes, symmetric=False)
MSymmetric == FALSE

\* parabolic.ipynb after the cell assembling a and m
InitParabolic ==
    \E mesh \in Meshes, eps \in Diffusions, b \in Winds, step \in Dts :
        /\ fes = H1(mesh, {"left", "right"})
        /\ aform = AForm(eps, b)
        /\ dt = step
        /\ a_mat = Assemble(aform, fes, FALSE, mesh.x)
        /\ m_mat = Assemble(MForm, fes, MSymmetric, mesh.x)
        /\ mstar = NoMatrix
        /\ invmstar = NoInverse
        /\ f_vec = VZero(fes.ndof)
        /\ u0 = "zero"
        /\ gfu = VZero(fes.ndof)
        /\ pc = "create"
        /\ variant = "none"
        /\ tend = RZero /\ t0 = RZero /\ nsamples = 1 /\ initial_cond = "None"
        /\ cnt = 0 /\ time = RZero /\ sample_int = 1
        /\ gfut = <<>> /\ vtk = <<>>
        /\ gfu_start = VZero(fes.ndof)
        /\ nupdates = 0

\* parabolic.ipynb not run
IdleParabolic ==
    /\ fes = NoSpace /\ aform = MForm /\ dt = ROne
    /\ a_mat = NoMatrix /\ m_mat = NoMatrix /\ mstar = NoMatrix
    /\ invmstar = NoInverse
    /\ f_vec = <<>> /\ u0 = "zero" /\ gfu = <<>>
    /\ pc = "idle" /\ variant = "none"
    /\ tend = RZero /\ t0 = RZero /\ nsamples = 1 /\ initial_cond = "None"
    /\ cnt = 0 /\ time = RZero /\ sample_int = 1
    /\ gfut = <<>> /\ vtk = <<>>
    /\ gfu_start = <<>>
    /\ nupdates = 0

\* the mean curvature flow notebook not run
IdleMCF ==
    /\ mcf_pc = "idle" /\ V = NoSpace /\ tau = ROne /\ Tend = RZero
    /\ dXh = <<>> /\ Idh = <<>> /\ Xh = <<>>
    /\ M_mat = NoMatrix /\ Minv = NoInverse /\ l_vec = <<>>
    /\ mcf_i = 0 /\ mcf_t = FlZero /\ redraws = 0

\* the boundary value notebooks not run
IdleBVP ==
    /\ bvp_pc = "idle" /\ bvp_kind = "none" /\ bvp_fes = NoSpace /\ fs2 = NoSpace
    /\ bvp_flag = {}
    /\ bvp_terms = <<>> /\ bvp_a = NoMatrix /\ bvp_f = <<>> /\ bvp_gfu = <<>>
    /\ bvp_r = <<>> /\ uD = <<>> /\ raised = "none"

\* no assembly under way
IdleScatter ==
    /\ asm_pc = "idle" /\ asm_kind = "none" /\ asm_form = MForm /\ asm_geom = <<>>
    /\ asm_queue = {} /\ asm_task = <<>> /\ asm_global = <<>> /\ asm_stored = {}

\* the loop control in floats not run
IdleClock ==
    /\ clk_pc = "idle" /\ clk_dt = ROne /\ clk_tend = RZero
    /\ clk_cnt = 0 /\ clk_time = FlZero /\ clk_fl = <<>>

\* the convergence study not run
IdleStudy ==
    /\ cv_pc = "idle" /\ cv_coarse = Mesh(<<>>) /\ cv_num_ref = 0 /\ cv_ref = -1
    /\ cv_mesh = Mesh(<<>>) /\ cv_level = 0 /\ cv_V = <<>> /\ cv_a = <<>>
    /\ cv_l = <<>> /\ cv_uh = <<>> /\ cv_errs = <<>> /\ cv_stamp = <<>>
    /\ cv_built = <<>> /\ cv_redraws = 0

\* compute_eoc not called
IdleEoc ==
    /\ eoc_pc = "idle" /\ eoc_errs = <<>> /\ eoc_fac = FromInt(2) /\ eoc_out = <<>>
    /\ eoc_table = <<>>

\* none of the programs modelled after the distributed assembly runs
IdleLater == IdleClock /\ IdleStudy /\ IdleEoc

Init == InitParabolic /\ IdleMCF /\ IdleBVP /\ IdleScatter /\ IdleLater

(***************************************************************************)
(* Notebook cells before the time loops                                    *)
(***************************************************************************)
\* mstar = m.mat.CreateMatrix()
CreateMStar ==
    /\ pc = "create"
    /\ mstar' = CreateMatrix(m_mat)
    /\ pc' = "build"
    /\ UNCHANGED <<variant, setup, invmstar, f_vec, u0, gfu, params, cnt, time,
                   gfut, vtk, gfu_start, nupdates, mvars, xvars>>

\* the linear combination without the factor dt
MStarValuesNoDt == VAdd(AsVector(m_mat), AsVector(a_mat))

\* m.mat.AsVector() + dt * a.mat.AsVector()
MStarValues == VAdd(AsVector(m_mat), VScale(ToField(dt), AsVector(a_mat)))

\* mstar.AsVector().data = ...; invmstar = mstar.Inverse(freedofs=fes.FreeDofs())
BuildMStar ==
    /\ pc = "build"
    /\ Len(AsVector(m_mat)) = Len(AsVector(a_mat))
    /\ Len(AsVector(m_mat)) = Len(AsVector(mstar))
    /\ mstar' = [mstar EXCEPT !.val = MStarValues]
    /\ ~Singular(mstar', FreeDofs(fes))
    /\ invmstar' = Inverse(mstar', FreeDofs(fes))
    /\ pc' = "force"
    /\ UNCHANGED <<variant, setup, f_vec, u0, gfu, params, cnt, time, gfut, vtk,
                   gfu_start, nupdates, mvars, xvars>>

\* f = LinearForm(fes); f += gaussp*v*dx; f.Assemble()
AssembleF ==
    /\ pc = "force"
    /\ \E src \in Sources :
          f_vec' = AssembleLinear(Interpolate(src, fes), fes.mesh.x)
    /\ pc' = "initial"
    /\ UNCHANGED <<variant, setup, mstar, invmstar, u0, gfu, params, cnt, time,
                   gfut, vtk, gfu_start, nupdates, mvars, xvars>>

\* gfu = GridFunction(fes); gfu.Set((1-y*y)*x)
SetInitial ==
    /\ pc = "initial"
    /\ \E cf \in InitialData :
          /\ u0' = cf
          /\ gfu' = Interpolate(cf, fes)
    /\ pc' = "ready"
    /\ UNCHANGED <<variant, setup, mstar, invmstar, f_vec, params, cnt, time,
                   gfut, vtk, gfu_start, nupdates, mvars, xvars>>

(***************************************************************************)
(* The implicit Euler loops of parabolic.ipynb                             *)
(***************************************************************************)
\* if initial_cond:
Truthy(ic) == ic \notin {"None", "0"}

\* a sample interval equal to the number of samples asked for
SampleIntCount(te, ns) == ns

\* int(floor(tend / dt / nsamples)+1)
SampleInt(te, ns) == RFloor(RDiv(RDiv(te, dt), FromInt(ns))) + 1

\* the loop condition without the half step of tolerance
ContinueNoTolerance == RLess(time, tend)

\* while time < tend - 0.5 * dt:
Continue == RLess(time, RSub(tend, RMul(RHalf, dt)))

\* the residual with the factor dt of the stiffness term left out
ResidualUnscaled == VSub(VScale(ToField(dt), f_vec), MatVec(a_mat, gfu))

\* the residual with the constant 1 in the place of the assembled f.vec
ResidualUnitSource ==
    VSub(VScale(ToField(dt), [d \in DOMAIN f_vec |-> One]),
         VScale(ToField(dt), MatVec(a_mat, gfu)))

\* res = dt * f.vec - dt * a.mat * gfu.vec
Residual ==
    VSub(VScale(ToField(dt), f_vec), VScale(ToField(dt), MatVec(a_mat, gfu)))

\* gfu.vec.data += invmstar * res
Updated == VAdd(gfu, InvApply(invmstar, Residual))

\* time = cnt * dt
TimeOf(c) == RMul(FromInt(c), dt)

\* the residual written into f.vec in place
ForcingOverwritten == Residual

\* res is a new vector: evaluating dt * f.vec - dt * a.mat * gfu.vec leaves
\* f.vec as it is
ForcingAfterStep == f_vec

\* TimeStepping(invmstar, initial_cond, t0, tend, nsamples), up to the loop
CallTimeStepping ==
    /\ pc = "ready"
    /\ \E ic \in InitialConds, start \in StartTimes, te \in Tends,
          ns \in 1..MaxSamples :
          /\ gfu' = IF Truthy(ic) THEN Interpolate(ic, fes) ELSE gfu
          /\ cnt' = 0
          /\ time' = start
          /\ t0' = start /\ tend' = te /\ nsamples' = ns /\ initial_cond' = ic
          /\ sample_int' = SampleInt(te, ns)
    /\ gfut' = <<gfu'>>
    /\ gfu_start' = gfu'
    /\ variant' = "TimeStepping"
    /\ pc' = "loop"
    /\ UNCHANGED <<setup, mstar, invmstar, f_vec, u0, vtk, nupdates, mvars, xvars>>

\* a pass of TimeStepping that computes the time before it increments cnt
StepTimeSteppingLagging ==
    /\ pc = "loop" /\ variant = "TimeStepping"
    /\ Continue
    /\ gfu' = Updated
    /\ gfut' = IF cnt % sample_int = 0 THEN Append(gfut, gfu') ELSE gfut
    /\ time' = TimeOf(cnt)
    /\ cnt' = cnt + 1
    /\ nupdates' = nupdates + 1
    /\ f_vec' = ForcingAfterStep
    /\ UNCHANGED <<pc, variant, setup, mstar, invmstar, u0, params, vtk, gfu_start, mvars, xvars>>

\* one pass through the body of the loop of TimeStepping
StepTimeStepping ==
    /\ pc = "loop" /\ variant = "TimeStepping"
    /\ Continue
    /\ gfu' = Updated
    /\ gfut' = IF cnt % sample_int = 0 THEN Append(gfut, gfu') ELSE gfut
    /\ cnt' = cnt + 1
    /\ time' = TimeOf(cnt')
    /\ nupdates' = nupdates + 1
    /\ f_vec' = ForcingAfterStep
    /\ UNCHANGED <<pc, variant, setup, mstar, invmstar, u0, params, vtk, gfu_start, mvars, xvars>>

\* TimeSteppingVTK(invmstar, initial_cond, t0, tend, nsamples), up to the loop
CallTimeSteppingVTK ==
    /\ pc = "ready"
    /\ \E ic \in InitialConds, start \in StartTimes, te \in Tends,
          ns \in 1..MaxSamples :
          /\ gfu' = IF Truthy(ic) THEN Interpolate(ic, fes) ELSE gfu
          /\ cnt' = 0
          /\ time' = start
          /\ t0' = start /\ tend' = te /\ nsamples' = ns /\ initial_cond' = ic
          /\ sample_int' = SampleInt(te, ns)
    /\ vtk' = <<<<time', gfu'>>>>
    /\ gfu_start' = gfu'
    /\ variant' = "TimeSteppingVTK"
    /\ pc' = "loop"
    /\ UNCHANGED <<setup, mstar, invmstar, f_vec, u0, gfut, nupdates, mvars, xvars>>

\* a pass of TimeSteppingVTK that writes the output before the update
StepTimeSteppingVTKStale ==
    /\ pc = "loop" /\ variant = "TimeSteppingVTK"
    /\ Continue
    /\ cnt' = cnt + 1
    /\ time' = TimeOf(cnt')
    /\ gfu' = Updated
    /\ vtk' = IF cnt' % sample_int = 0 THEN Append(vtk, <<time', gfu>>) ELSE vtk
    /\ nupdates' = nupdates + 1
    /\ f_vec' = ForcingAfterStep
    /\ UNCHANGED <<pc, variant, setup, mstar, invmstar, u0, params, gfut, gfu_start, mvars, xvars>>

\* one pass through the body of the loop of TimeSteppingVTK
StepTimeSteppingVTK ==
    /\ pc = "loop" /\ variant = "TimeSteppingVTK"
    /\ Continue
    /\ cnt' = cnt + 1
    /\ time' = TimeOf(cnt')
    /\ gfu' = Updated
    /\ vtk' = IF cnt' % sample_int = 0 THEN Append(vtk, <<time', gfu'>>) ELSE vtk
    /\ nupdates' = nupdates + 1
    /\ f_vec' = ForcingAfterStep
    /\ UNCHANGED <<pc, variant, setup, mstar, invmstar, u0, params, gfut, gfu_start, mvars, xvars>>

\* the cell with the inline loop, up to the loop: gfu.Set((1-y*y)*x);
\* time = 0.0; tend = 2; cnt = 0; vtk.Do(time)
StartInline ==
    /\ pc = "ready"
    /\ \E te \in Tends : tend' = te
    /\ gfu' = Interpolate(u0, fes)
    /\ cnt' = 0
    /\ time' = RZero
    /\ t0' = RZero
    /\ vtk' = <<<<time', gfu'>>>>
    /\ gfu_start' = gfu'
    /\ variant' = "inline"
    /\ pc' = "loop"
    /\ UNCHANGED <<setup, mstar, invmstar, f_vec, u0, nsamples, initial_cond,
                   sample_int, gfut,
                   nupdates, mvars, xvars>>

\* one pass through the body of the inline loop
StepInline ==
    /\ pc = "loop" /\ variant = "inline"
    /\ Continue
    /\ cnt' = cnt + 1
    /\ time' = TimeOf(cnt')
    /\ gfu' = Updated
    /\ vtk' = Append(vtk, <<time', gfu'>>)
    /\ nupdates' = nupdates + 1
    /\ f_vec' = ForcingAfterStep
    /\ UNCHANGED <<pc, variant, setup, mstar, invmstar, u0, params, gfut, gfu_start, mvars, xvars>>

\* the loop condition fails: return gfut / return gfu / end of the cell
Finish ==
    /\ pc = "loop"
    /\ ~Continue
    /\ pc' = "done"
    /\ UNCHANGED <<variant, setup, mstar, invmstar, f_vec, u0, gfu, params, cnt,
                   time, gfut, vtk, gfu_start, nupdates, mvars, xvars>>

Next ==
    \/ CreateMStar
    \/ BuildMStar
    \/ AssembleF
    \/ SetInitial
    \/ CallTimeStepping
    \/ StepTimeStepping
    \/ CallTimeSteppingVTK
    \/ StepTimeSteppingVTK
    \/ StartInline
    \/ StepInline
    \/ Finish

Spec == Init /\ [][Next]_vars

(***************************************************************************)
(* Mean curvature flow: Dziuk's method                                     *)
(***************************************************************************)
\* M += (X*Y + tau*InnerProduct(grad(X).Trace(), grad(Y).Trace()))*ds(deformation=dXh)
MCFForm == Form(One, ToField(tau), Zero)

\* the geometry ds(deformation=dXh) integrates on: reference positions of
\* the mesh plus the deformation
Deformed(mesh, deformation) == VAdd(mesh.x, deformation)

\* M.Assemble()
MAssembled == Assemble(MCFForm, V, FALSE, Deformed(V.mesh, dXh))

\* l.Assemble() left out of the loop: l.vec keeps its values
LStale == l_vec

\* l += CF((x,y,z))*Y*ds(deformation=dXh); l.Assemble(): the coefficient
\* is the position on the deformed geometry
LAssembled ==
    AssembleLinear(Deformed(V.mesh, dXh), Deformed(V.mesh, dXh))

\* Minv.Update() left out: the factorisation keeps its values
MinvStale == Minv

\* Minv.Update(): factorise the current values of M.mat again
MinvUpdated == Inverse(M_mat, Minv.free)

\* Minv * l.vec
Solved == InvApply(Minv, l_vec)

\* the new position taken as the deformation
DisplacementUnreferenced == Xh

\* Xh.vec - Idh.vec
Displacement == VSub(Xh, Idh)

\* a space with the boundary of the chain constrained
VectorH1Constrained(mesh) == H1(mesh, GetBoundaries(mesh))

\* V = VectorH1(mesh, order=order_p): no dirichlet flag
VectorH1(mesh) == H1(mesh, {})

\* the notebook up to the cell of the time loop; i = 0; t = 0
InitMCF ==
    \E flow \in Flows :
      \E mesh \in SurfaceMeshes(flow[1]) :
        /\ tau = flow[2]
        /\ Tend = Rat(flow[1] * flow[1], 4)
        /\ V = VectorH1(mesh)
        /\ dXh = VZero(V.ndof)
        /\ Idh = Interpolate("x", V)
        /\ Xh = Interpolate("x", V)
        /\ M_mat = Assemble(Form(One, ToField(flow[2]), Zero), V, FALSE, mesh.x)
        /\ Minv = Inverse(M_mat, FreeDofs(V))
        /\ l_vec = AssembleLinear(mesh.x, mesh.x)
        /\ mcf_i = 0
        /\ mcf_t = FlZero
        /\ redraws = 0
        /\ mcf_pc = "test"

\* while t <= Tend-tau:
MCFContinue == FlLeq(mcf_t, FlSub(Float(Tend), Float(tau)))

Test ==
    /\ mcf_pc = "test"
    /\ mcf_pc' = IF MCFContinue THEN "assembleM" ELSE "done"
    /\ UNCHANGED <<V, tau, Tend, dXh, Idh, Xh, M_mat, Minv, l_vec, mcf_i, mcf_t,
                   redraws, pvars, xvars>>

\* M.Assemble()
AssembleM ==
    /\ mcf_pc = "assembleM"
    /\ IF Degenerate(Deformed(V.mesh, dXh))
       THEN mcf_pc' = "error" /\ UNCHANGED M_mat
       ELSE mcf_pc' = "assembleL" /\ M_mat' = MAssembled
    /\ UNCHANGED <<V, tau, Tend, dXh, Idh, Xh, Minv, l_vec, mcf_i, mcf_t, redraws,
                   pvars, xvars>>

\* l.Assemble()
AssembleL ==
    /\ mcf_pc = "assembleL"
    /\ l_vec' = LAssembled
    /\ mcf_pc' = "update"
    /\ UNCHANGED <<V, tau, Tend, dXh, Idh, Xh, M_mat, Minv, mcf_i, mcf_t, redraws,
                   pvars, xvars>>

\* Minv.Update()
Update ==
    /\ mcf_pc = "update"
    /\ IF Singular(M_mat, Minv.free)
       THEN mcf_pc' = "error" /\ UNCHANGED Minv
       ELSE mcf_pc' = "solve" /\ Minv' = MinvUpdated
    /\ UNCHANGED <<V, tau, Tend, dXh, Idh, Xh, M_mat, l_vec, mcf_i, mcf_t, redraws,
                   pvars, xvars>>

\* a solve started while Minv.Update() is still to complete
SolveDuringUpdate ==
    /\ mcf_pc = "update"
    /\ Xh' = Solved
    /\ mcf_pc' = "deform"
    /\ UNCHANGED <<V, tau, Tend, dXh, Idh, M_mat, Minv, l_vec, mcf_i, mcf_t,
                   redraws, pvars, xvars>>

\* Xh.vec.data = Minv*l.vec
Solve ==
    /\ mcf_pc = "solve"
    /\ Xh' = Solved
    /\ mcf_pc' = "deform"
    /\ UNCHANGED <<V, tau, Tend, dXh, Idh, M_mat, Minv, l_vec, mcf_i, mcf_t,
                   redraws, pvars, xvars>>

\* dXh.vec.data = Xh.vec - Idh.vec
Deform ==
    /\ mcf_pc = "deform"
    /\ dXh' = Displacement
    /\ mcf_pc' = "advance"
    /\ UNCHANGED <<V, tau, Tend, Idh, Xh, M_mat, Minv, l_vec, mcf_i, mcf_t, redraws,
                   pvars, xvars>>

\* if i % 10 == 0: scene.Redraw(); t += tau; i += 1
Advance ==
    /\ mcf_pc = "advance"
    /\ redraws' = IF mcf_i % 10 = 0 THEN redraws + 1 ELSE redraws
    /\ mcf_t' = FlAdd(mcf_t, Float(tau))
    /\ mcf_i' = mcf_i + 1
    /\ mcf_pc' = "test"
    /\ UNCHANGED <<V, tau, Tend, dXh, Idh, Xh, M_mat, Minv, l_vec, pvars, xvars>>

NextMCF ==
    \/ Test
    \/ AssembleM
    \/ AssembleL
    \/ Update
    \/ Solve
    \/ Deform
    \/ Advance

InitFlow == InitMCF /\ IdleParabolic /\ IdleBVP /\ IdleScatter /\ IdleLater

SpecMCF == InitFlow /\ [][NextMCF]_vars

(***************************************************************************)
(* Boundary value problems: the Dirichlet tutorial ("volume") and          *)
(* surface_pdes.ipynb ("surface").  On the chain the elements are the      *)
(* cells of the volume mesh (dx) or the surface elements (ds).             *)
(***************************************************************************)
\* a term of a bilinear form: its coefficients, its measure, and whether
\* its operands carry .Trace()
Term(form, vb, trace) == [form |-> form, vb |-> vb, trace |-> trace]

\* grad(u)*grad(v)*dx
VolumeLaplace == Term(Form(Zero, One, Zero), "dx", FALSE)

\* grad(u).Trace()*grad(v).Trace()*ds
SurfaceLaplace == Term(Form(Zero, One, Zero), "ds", TRUE)

\* (grad(u).Trace()*grad(v).Trace() + u.Trace()*v.Trace())*ds
SurfaceReaction == Term(Form(One, One, Zero), "ds", TRUE)

\* grad(u)*grad(v)*ds
UntracedLaplace == Term(Form(Zero, One, Zero), "ds", FALSE)

\* the gradient of an H1 function on a surface element is defined only as
\* the tangential gradient, which .Trace() gives
Evaluable(term) ==
    (term.vb = "ds" /\ (term.form.diff # Zero \/ term.form.wind # Zero)) => term.trace

RECURSIVE SumOfTerms(_)
SumOfTerms(terms) ==
    IF terms = <<>> THEN Form(Zero, Zero, Zero)
    ELSE FormAdd(SumOfTerms(Tail(terms)), One, Head(terms).form)

\* meshes of the boundary value problems
BVPMeshes == {Mesh(Coords(<<0, 1, 2>>)), Mesh(Coords(<<0, 1, 3, 4>>))}

\* boundary data g
BoundaryData == {"zero", "x+1", "x*x"}

\* BilinearForm(fes, symmetric=True) in surface_pdes.ipynb, the default in
\* the tutorial
BVPSymmetric == bvp_kind = "surface"

\* the form of the notebooks: grad(u)*grad(v)*dx in the tutorial; on the
\* surface the Laplace-Beltrami form with the term u*v for the space without
\* dirichlet_bbnd, without it for the space with dirichlet_bbnd
FirstTerm ==
    IF bvp_kind = "volume"
    THEN VolumeLaplace
    ELSE IF bvp_flag = {} THEN SurfaceReaction ELSE SurfaceLaplace

\* fes = H1(mesh, order=2, dirichlet="left|right") /
\* fes = H1(mesh, order=2, dirichlet_bbnd="bottom")
InitBVP ==
    \E kind \in {"volume", "surface"}, mesh \in BVPMeshes :
      \E dirichlet \in SUBSET GetBoundaries(mesh) :
        /\ bvp_kind = kind
        /\ bvp_fes = H1(mesh, dirichlet)
        /\ bvp_flag = dirichlet
        /\ fs2 = NoSpace
        /\ bvp_terms = <<>> /\ bvp_a = NoMatrix /\ bvp_f = <<>> /\ bvp_gfu = <<>>
        /\ bvp_r = <<>> /\ uD = <<>> /\ raised = "none"
        /\ bvp_pc = "space"

\* fs2 = H1(mesh, order=2); fes.ndof, fs2.ndof
Compare ==
    /\ bvp_pc = "space" /\ bvp_kind = "volume"
    /\ fs2' = H1(bvp_fes.mesh, {})
    /\ bvp_pc' = "extend"
    /\ UNCHANGED <<bvp_kind, bvp_fes, bvp_flag, bvp_terms, bvp_a, bvp_f, bvp_gfu,
                   bvp_r, uD,
                   raised, pvars, mvars, avars, wvars>>

\* gfu.Set(g, BND) / gfu.Set(x, definedon=mesh.BBoundaries("bottom")): g is
\* interpolated at the dofs of the constrained regions.  What Set leaves at
\* the other dofs is given by prior: zero, or (None) the value held before
SetBoundary(g, prior) ==
    [d \in 1..bvp_fes.ndof |->
        IF ~FreeDofs(bvp_fes)[d] THEN Eval(g, bvp_fes.mesh.x[d])
        ELSE IF prior = "zero" \/ bvp_gfu = <<>> THEN Zero ELSE bvp_gfu[d]]

\* gfu = GridFunction(fes); gfu.Set(g, BND) in the tutorial;
\* gfu.Set(x, definedon=...) on the gfu of the homogeneous solve in
\* surface_pdes.ipynb
Extend ==
    /\ bvp_pc = "extend"
    /\ \E g \in BoundaryData, prior \in {"zero", "kept"} :
          bvp_gfu' = SetBoundary(g, IF bvp_kind = "volume" THEN "zero" ELSE prior)
    /\ uD' = bvp_gfu'
    /\ bvp_pc' = IF bvp_kind = "volume" THEN "form" ELSE "residual"
    /\ UNCHANGED <<bvp_kind, bvp_fes, bvp_flag, fs2, bvp_terms, bvp_a, bvp_f,
                   bvp_r, raised,
                   pvars, mvars, avars, wvars>>

\* a.Assemble(): an exception when a term cannot be evaluated, the matrix
\* of the sum of the terms otherwise
AssembleTerms(terms, next) ==
    IF \E k \in DOMAIN terms : ~Evaluable(terms[k])
    THEN /\ raised' = "NgException"
         /\ bvp_pc' = "raised"
         /\ UNCHANGED bvp_a
    ELSE /\ bvp_a' = Assemble(SumOfTerms(terms), bvp_fes, BVPSymmetric, bvp_fes.mesh.x)
         /\ bvp_pc' = next
         /\ UNCHANGED raised

\* a = BilinearForm(grad(u)*grad(v)*dx).Assemble() /
\* a = BilinearForm(fes, symmetric=True); a += ...*ds; a.Assemble()
DefineForm ==
    /\ \/ bvp_pc = "form"
       \/ bvp_pc = "space" /\ bvp_kind = "surface"
    /\ bvp_terms' = <<FirstTerm>>
    /\ AssembleTerms(bvp_terms', IF bvp_kind = "volume" THEN "residual" ELSE "force")
    /\ UNCHANGED <<bvp_kind, bvp_fes, bvp_flag, fs2, bvp_f, bvp_gfu, bvp_r, uD,
                   pvars, mvars, avars, wvars>>

\* f = LinearForm(fes); f += force*v*ds; f.Assemble()
AssembleForce ==
    /\ bvp_pc = "force"
    /\ \E src \in Sources :
          bvp_f' = AssembleLinear(Interpolate(src, bvp_fes), bvp_fes.mesh.x)
    /\ bvp_pc' = "homogeneous"
    /\ UNCHANGED <<bvp_kind, bvp_fes, bvp_flag, fs2, bvp_terms, bvp_a, bvp_gfu,
                   bvp_r, uD,
                   raised, pvars, mvars, avars, wvars>>

\* gfu = GridFunction(fes); gfu.vec.data = a.mat.Inverse(fes.FreeDofs())*f.vec
SolveHomogeneous ==
    /\ bvp_pc = "homogeneous"
    /\ ~Singular(bvp_a, FreeDofs(bvp_fes))
    /\ bvp_gfu' = InvApply(Inverse(bvp_a, FreeDofs(bvp_fes)), bvp_f)
    /\ bvp_pc' = "extend"
    /\ UNCHANGED <<bvp_kind, bvp_fes, bvp_flag, fs2, bvp_terms, bvp_a, bvp_f,
                   bvp_r, uD, raised,
                   pvars, mvars, avars, wvars>>

\* the right-hand side without the boundary extension
ResidualWithoutExtension == bvp_f'

\* r = f.vec - a.mat * gfu.vec
ResidualBVP == VSub(bvp_f', MatVec(bvp_a, bvp_gfu))

\* f = LinearForm(1*v*dx).Assemble(); r = f.vec - a.mat * gfu.vec in the
\* tutorial; r = f.vec.CreateVector(); r.data = f.vec - a.mat*gfu.vec in
\* surface_pdes.ipynb
ComputeResidual ==
    /\ bvp_pc = "residual"
    /\ bvp_f' = IF bvp_kind = "volume"
                THEN AssembleLinear(Interpolate("one", bvp_fes), bvp_fes.mesh.x)
                ELSE bvp_f
    /\ bvp_r' = ResidualBVP
    /\ bvp_pc' = "solve"
    /\ UNCHANGED <<bvp_kind, bvp_fes, bvp_flag, fs2, bvp_terms, bvp_a, bvp_gfu, uD,
                   raised,
                   pvars, mvars, avars, wvars>>

\* gfu.vec.data += a.mat.Inverse(freedofs=fes.FreeDofs()) * r
SolveBVP ==
    /\ bvp_pc = "solve"
    /\ ~Singular(bvp_a, FreeDofs(bvp_fes))
    /\ bvp_gfu' = VAdd(bvp_gfu, InvApply(Inverse(bvp_a, FreeDofs(bvp_fes)), bvp_r))
    /\ bvp_pc' = IF bvp_kind = "volume" THEN "done" ELSE "spaces"
    /\ UNCHANGED <<bvp_kind, bvp_fes, bvp_flag, fs2, bvp_terms, bvp_a, bvp_f,
                   bvp_r, uD, raised,
                   pvars, mvars, avars, wvars>>

\* the integrand with the Trace operator on both gradients
AddedTermTraced == SurfaceLaplace

\* a += grad(u)*grad(v)*ds
AddedTerm == UntracedLaplace

\* the cell tagged raises-exception: a += grad(u)*grad(v)*ds; a.Assemble()
AssembleUntraced ==
    /\ bvp_pc = "spaces"
    /\ bvp_terms' = Append(bvp_terms, AddedTerm)
    /\ AssembleTerms(bvp_terms', "done")
    /\ UNCHANGED <<bvp_kind, bvp_fes, bvp_flag, fs2, bvp_f, bvp_gfu, bvp_r, uD,
                   pvars, mvars, avars, wvars>>

NextBVP ==
    \/ Compare
    \/ Extend
    \/ DefineForm
    \/ AssembleForce
    \/ SolveHomogeneous
    \/ ComputeResidual
    \/ SolveBVP
    \/ AssembleUntraced

InitProblem == InitBVP /\ IdleParabolic /\ IdleMCF /\ IdleScatter /\ IdleLater

SpecBVP == InitProblem /\ [][NextBVP]_vars

(***************************************************************************)
(* Errors inside a step.  The loops have no try/except: a library call of  *)
(* the loop body that raises ends the statement it is in, the statements   *)
(* before it have run, and the exception leaves the loop.                  *)
(***************************************************************************)
\* a handler around the body that goes on with the loop
OnErrorRetry(head) == head

\* no handler: the exception leaves the loop
OnError(head) == "error"

\* res = dt * f.vec - dt * a.mat * gfu.vec or gfu.vec.data += invmstar * res
\* raises; in TimeSteppingVTK and the inline loop cnt += 1; time = cnt * dt
\* has run before
RaiseInStep ==
    /\ pc = "loop" /\ raised = "none"
    /\ Continue
    /\ IF variant = "TimeStepping"
       THEN UNCHANGED <<cnt, time>>
       ELSE cnt' = cnt + 1 /\ time' = TimeOf(cnt')
    /\ raised' = "NgException"
    /\ pc' = OnError("loop")
    /\ UNCHANGED <<variant, setup, mstar, invmstar, f_vec, u0, gfu, params, gfut,
                   vtk, gfu_start, nupdates, mvars>>
    /\ UNCHANGED <<bvp_pc, bvp_kind, bvp_fes, bvp_flag, fs2, bvp_terms, bvp_a,
                   bvp_f, bvp_gfu, bvp_r, uD, avars, wvars>>

\* M.Assemble(), l.Assemble(), Minv.Update() or Xh.vec.data = Minv*l.vec raises
RaiseInFlow ==
    /\ mcf_pc \in {"assembleM", "assembleL", "update", "solve"} /\ raised = "none"
    /\ raised' = "NgException"
    /\ mcf_pc' = OnError("test")
    /\ UNCHANGED <<V, tau, Tend, dXh, Idh, Xh, M_mat, Minv, l_vec, mcf_i, mcf_t,
                   redraws, pvars>>
    /\ UNCHANGED <<bvp_pc, bvp_kind, bvp_fes, bvp_flag, fs2, bvp_terms, bvp_a,
                   bvp_f, bvp_gfu, bvp_r, uD, avars, wvars>>

NextRaise ==
    \/ Next
    \/ NextMCF
    \/ RaiseInStep
    \/ RaiseInFlow

\* either notebook is run
InitLoops == Init \/ InitFlow

SpecRaise == InitLoops /\ [][NextRaise]_vars

(***************************************************************************)
(* Assembly under the TaskManager.  The elements are handed out to the     *)
(* worker threads; a worker adds the local contributions of its element    *)
(* to the global entries one after the other.  An addition is a load of    *)
(* the entry and a store of the sum, and an entry is held by one worker    *)
(* from its load to its store.                                             *)
(***************************************************************************)
NWorkers == 2

Workers == 1..NWorkers

ScatterMeshes == {Mesh(Coords(<<0, 1, 3>>)), Mesh(Coords(<<-1, 0, 1, 3>>))}

\* m + tau*a of the mean curvature flow, for the time steps of the model
ScatterForms == {Form(One, ToField(step), Zero) : step \in {<<1, 4>>, <<1, 8>>}}

NoTask == [e |-> 0, k |-> 0, loaded |-> FALSE, acc |-> Zero]

\* the global entries element e adds to, in the order it adds to them:
\* (row, column) for a matrix, (row) for a vector
Targets(kind, e) ==
    IF kind = "matrix"
    THEN <<<<e, e>>, <<e, e + 1>>, <<e + 1, e>>, <<e + 1, e + 1>>>>
    ELSE <<<<e>>, <<e + 1>>>>

AllTargets(kind, geom) ==
    UNION {{Targets(kind, e)[k] : k \in DOMAIN Targets(kind, e)} :
             e \in 1..(Len(geom) - 1)}

\* the local contribution of element e to the entry tg: the element matrix
\* entry, or the element vector of CF((x,y,z))*Y*ds
LocalValue(kind, form, geom, e, tg) ==
    IF kind = "matrix"
    THEN Local(form, geom, e, tg[1], tg[2])
    ELSE FAdd(FMul(Local(MForm, geom, e, tg[1], e), geom[e]),
              FMul(Local(MForm, geom, e, tg[1], e + 1), geom[e + 1]))

\* M.Assemble() / l.Assemble() under "with TaskManager():" begins
InitScatter ==
    \E kind \in {"matrix", "vector"}, mesh \in ScatterMeshes :
      \E form \in IF kind = "matrix" THEN ScatterForms ELSE {MForm} :
        /\ asm_pc = "scatter"
        /\ asm_kind = kind
        /\ asm_form = form
        /\ asm_geom = mesh.x
        /\ asm_queue = 1..(Len(mesh.x) - 1)
        /\ asm_task = [w \in Workers |-> NoTask]
        /\ asm_global = [tg \in AllTargets(kind, mesh.x) |-> Zero]
        /\ asm_stored = {}

\* a free worker takes an element
Take(w) ==
    /\ asm_pc = "scatter"
    /\ asm_task[w].e = 0
    /\ \E e \in asm_queue :
          /\ asm_queue' = asm_queue \ {e}
          /\ asm_task' = [asm_task EXCEPT ![w] = [NoTask EXCEPT !.e = e, !.k = 1]]
    /\ UNCHANGED <<asm_pc, asm_kind, asm_form, asm_geom, asm_global, asm_stored,
                   pvars, mvars, bvars, wvars>>

\* the entry worker w is adding to
Target(w) == Targets(asm_kind, asm_task[w].e)[asm_task[w].k]

\* additions without synchronisation
LockedNever(w, tg) == FALSE

\* another worker holds the entry
Locked(w, tg) ==
    \E v \in Workers \ {w} : asm_task[v].loaded /\ Target(v) = tg

\* the worker reads the global entry
Load(w) ==
    /\ asm_pc = "scatter"
    /\ asm_task[w].e # 0 /\ ~asm_task[w].loaded
    /\ ~Locked(w, Target(w))
    /\ asm_task' = [asm_task EXCEPT ![w].loaded = TRUE,
                                    ![w].acc = asm_global[Target(w)]]
    /\ UNCHANGED <<asm_pc, asm_kind, asm_form, asm_geom, asm_queue, asm_global,
                   asm_stored, pvars, mvars, bvars, wvars>>

\* the worker writes the entry plus its contribution, and goes on
Store(w) ==
    /\ asm_pc = "scatter"
    /\ asm_task[w].loaded
    /\ asm_global' =
          [asm_global EXCEPT ![Target(w)] =
              FAdd(asm_task[w].acc,
                   LocalValue(asm_kind, asm_form, asm_geom, asm_task[w].e, Target(w)))]
    /\ asm_stored' = asm_stored \cup {<<asm_task[w].e, asm_task[w].k>>}
    /\ asm_task' =
          [asm_task EXCEPT ![w] =
              IF asm_task[w].k = Len(Targets(asm_kind, asm_task[w].e))
              THEN NoTask
              ELSE [NoTask EXCEPT !.e = asm_task[w].e, !.k = asm_task[w].k + 1]]
    /\ UNCHANGED <<asm_pc, asm_kind, asm_form, asm_geom, asm_queue, pvars, mvars,
                   bvars, wvars>>

\* Assemble() returns when every element has been scattered
Join ==
    /\ asm_pc = "scatter"
    /\ asm_queue = {}
    /\ \A w \in Workers : asm_task[w] = NoTask
    /\ asm_pc' = "done"
    /\ UNCHANGED <<asm_kind, asm_form, asm_geom, asm_queue, asm_task, asm_global,
                   asm_stored, pvars, mvars, bvars, wvars>>

NextScatter ==
    \/ \E w \in Workers : Take(w)
    \/ \E w \in Workers : Load(w)
    \/ \E w \in Workers : Store(w)
    \/ Join

InitAssembly == InitScatter /\ IdleParabolic /\ IdleMCF /\ IdleBVP /\ IdleLater

SpecScatter == InitAssembly /\ [][NextScatter]_vars

(***************************************************************************)
(* The loop control of TimeStepping in Python floats, for time steps and   *)
(* end times that are no binary fractions: cnt = 0; time = 0;              *)
(* while time < tend - 0.5 * dt: ...; cnt += 1; time = cnt * dt            *)
(***************************************************************************)
\* end times: the multiples of dt/4 up to MaxClockQuarters * dt/4
MaxClockQuarters == 16

\* dt = 0.001 is the time step of the notebook
ClockDts == {<<1, 1000>>, <<3, 1000>>, <<1, 200>>, <<1, 100>>, <<1, 10>>, <<1, 2>>}

\* c * m for a natural number c and a magnitude m, not rounded
RECURSIVE BTimes(_, _)
BTimes(c, m) == IF c = 0 \/ m = <<>> THEN <<>> ELSE BAdd(m, BTimes(c - 1, m))

\* cnt * dt for an int cnt >= 0 and a float dt
FlMulInt(c, x) == [neg |-> x.neg /\ c # 0 /\ x.mag # <<>>, mag |-> BRound(BTimes(c, x.mag))]

\* 0.5 * dt
HalfStep == Float(RMul(RHalf, clk_dt))

\* the passes a loop of the end times above can make
MaxClockSteps == (MaxClockQuarters \div 4) + 2

\* The values that depend on dt and tend alone, evaluated once when the
\* loop is entered: the floats dt and tend, tend - 0.5 * dt of the loop
\* test, and the products cnt * dt.
LoopFloats(step, end) ==
    [dt |-> Float(step),
     tend |-> Float(end),
     bound |-> FlSub(Float(end), Float(RMul(RHalf, step))),
     times |-> [n \in 1..MaxClockSteps |-> FlMulInt(n, Float(step))]]

\* TimeStepping(invmstar, tend=...) with t0 = 0, up to the loop
InitClock ==
    \E step \in ClockDts, k \in 0..MaxClockQuarters :
        /\ clk_dt = step
        /\ clk_tend = RMul(Rat(k, 4), step)
        /\ clk_fl = LoopFloats(step, RMul(Rat(k, 4), step))
        /\ clk_cnt = 0
        /\ clk_time = FlZero
        /\ clk_pc = "loop"

\* the loop test without the half step
ClockContinueNoTolerance == FlLess(clk_time, clk_fl.tend)

\* while time < tend - 0.5 * dt:
ClockContinue == FlLess(clk_time, clk_fl.bound)

\* one pass: cnt += 1; time = cnt * dt
ClockStep ==
    /\ clk_pc = "loop"
    /\ ClockContinue
    /\ clk_cnt < MaxClockSteps
    /\ clk_cnt' = clk_cnt + 1
    /\ clk_time' = clk_fl.times[clk_cnt + 1]
    /\ UNCHANGED <<clk_pc, clk_dt, clk_tend, clk_fl, pvars, mvars, bvars, avars,
                   kvars, evars>>

\* the loop test fails: return gfut
ClockFinish ==
    /\ clk_pc = "loop"
    /\ ~ClockContinue
    /\ clk_pc' = "done"
    /\ UNCHANGED <<clk_dt, clk_tend, clk_fl, clk_cnt, clk_time, pvars, mvars, bvars,
                   avars, kvars, evars>>

NextClock ==
    \/ ClockStep
    \/ ClockFinish

InitTimer ==
    /\ InitClock
    /\ IdleParabolic /\ IdleMCF /\ IdleBVP /\ IdleScatter /\ IdleStudy /\ IdleEoc

\* the loop is a sequential program: it takes its next step whenever it
\* has one
SpecClock == InitTimer /\ [][NextClock]_vars /\ WF_vars(NextClock)

(***************************************************************************)
(* The convergence study of surface_pdes.ipynb: the Poisson problem is     *)
(* solved on the mesh, the error is appended to errs, the mesh is refined. *)
(* The unit square becomes a chain of elements, Refine() halves every      *)
(* element.  An error is the value sqrt(Integrate((uh-u_ex)*(uh-u_ex),     *)
(* mesh)) takes for a solution vector and a mesh; it is kept as this pair. *)
(***************************************************************************)
\* largest num_ref
MaxRef == 2

NumRefs == 0..MaxRef

\* mesh = Mesh(unit_square.GenerateMesh(maxh=0.2))
StudyMeshes == {Mesh(Coords(<<0, 4>>)), Mesh(Coords(<<0, 8>>)), Mesh(Coords(<<0, 1, 4>>))}

\* mesh.Refine(): every element is split at its midpoint
Refine(mesh) ==
    Mesh([w \in 1..(2 * Len(mesh.x) - 1) |->
            IF w % 2 = 1 THEN mesh.x[(w + 1) \div 2]
            ELSE FMul(Half, FAdd(mesh.x[w \div 2], mesh.x[(w \div 2) + 1]))])

\* V = H1(mesh, order=1, dirichlet="bottom|right|top|left")
StudySpace(mesh) == H1(mesh, GetBoundaries(mesh))

\* a = BilinearForm(V); a += grad(u)*grad(v)*dx; a.Assemble()
StudyMatrix(space) == Assemble(Form(Zero, One, Zero), space, FALSE, space.mesh.x)

\* l = LinearForm(V); l += f*v*dx; l.Assemble()
StudyLoad(space) == AssembleLinear(Interpolate("one", space), space.mesh.x)

\* uh = GridFunction(V); Ainv = a.mat.Inverse(freedofs=V.FreeDofs());
\* uh.vec.data = Ainv * l.vec
StudySolution(space, mat, load) == InvApply(Inverse(mat, FreeDofs(space)), load)

\* sqrt(Integrate((uh-u_ex)*(uh-u_ex), mesh))
L2Error(vec, mesh) == [of |-> vec, against |-> "u_ex", on |-> mesh]

\* the body of the loop with the refinement as its first statement
StudyBodyRefineFirst == <<"refine", "space", "matrix", "load", "solve", "record", "redraw">>

\* the statements of the body of the loop in their order
StudyBody == <<"space", "matrix", "load", "solve", "record", "redraw", "refine">>

\* the statement after statement number at of the body; the loop head after
\* the last one
StudyAfter(at) == IF at < Len(StudyBody) THEN StudyBody[at + 1] ELSE "for"

StudyAt(stmt) == CHOOSE at \in 1..Len(StudyBody) : StudyBody[at] = stmt

NoStamp == [V |-> -1, a |-> -1, l |-> -1, uh |-> -1]

\* u_ex = ...; mesh = ...; num_ref = ...; errs = []; scene = Draw(uh)
InitStudy ==
    \E mesh \in StudyMeshes, n \in NumRefs :
        /\ cv_coarse = mesh
        /\ cv_mesh = mesh
        /\ cv_num_ref = n
        /\ cv_ref = -1
        /\ cv_level = 0
        /\ cv_V = <<>> /\ cv_a = <<>> /\ cv_l = <<>> /\ cv_uh = <<>>
        /\ cv_errs = <<>>
        /\ cv_stamp = NoStamp
        /\ cv_built = <<>>
        /\ cv_redraws = 0
        /\ cv_pc = "for"

\* for ref in range(num_ref+1):
StudyFor ==
    /\ cv_pc = "for"
    /\ IF cv_ref + 1 < cv_num_ref + 1
       THEN cv_ref' = cv_ref + 1 /\ cv_pc' = StudyBody[1]
       ELSE cv_pc' = "done" /\ UNCHANGED cv_ref
    /\ UNCHANGED <<cv_coarse, cv_num_ref, cv_mesh, cv_level, cv_V, cv_a, cv_l, cv_uh,
                   cv_errs, cv_stamp, cv_built, cv_redraws, pvars, mvars, bvars,
                   avars, cvars, evars>>

\* V = H1(mesh, order=1, dirichlet="bottom|right|top|left")
StudyMakeSpace ==
    /\ cv_pc = "space"
    /\ cv_V' = StudySpace(cv_mesh)
    /\ cv_stamp' = [cv_stamp EXCEPT !.V = cv_level]
    /\ cv_pc' = StudyAfter(StudyAt("space"))
    /\ UNCHANGED <<cv_coarse, cv_num_ref, cv_ref, cv_mesh, cv_level, cv_a, cv_l,
                   cv_uh, cv_errs, cv_built, cv_redraws, pvars, mvars, bvars, avars,
                   cvars, evars>>

\* a = BilinearForm(V); a += grad(u)*grad(v)*dx; a.Assemble()
StudyAssembleA ==
    /\ cv_pc = "matrix"
    /\ cv_V # <<>>
    /\ cv_a' = StudyMatrix(cv_V)
    /\ cv_stamp' = [cv_stamp EXCEPT !.a = cv_stamp.V]
    /\ cv_pc' = StudyAfter(StudyAt("matrix"))
    /\ UNCHANGED <<cv_coarse, cv_num_ref, cv_ref, cv_mesh, cv_level, cv_V, cv_l,
                   cv_uh, cv_errs, cv_built, cv_redraws, pvars, mvars, bvars, avars,
                   cvars, evars>>

\* f = 32 * (y*(1-y)+x*(1-x)); l = LinearForm(V); l += f*v*dx; l.Assemble()
StudyAssembleL ==
    /\ cv_pc = "load"
    /\ cv_V # <<>>
    /\ cv_l' = StudyLoad(cv_V)
    /\ cv_stamp' = [cv_stamp EXCEPT !.l = cv_stamp.V]
    /\ cv_pc' = StudyAfter(StudyAt("load"))
    /\ UNCHANGED <<cv_coarse, cv_num_ref, cv_ref, cv_mesh, cv_level, cv_V, cv_a,
                   cv_uh, cv_errs, cv_built, cv_redraws, pvars, mvars, bvars, avars,
                   cvars, evars>>

\* uh = GridFunction(V); Ainv = a.mat.Inverse(freedofs=V.FreeDofs());
\* uh.vec.data = Ainv * l.vec
StudySolve ==
    /\ cv_pc = "solve"
    /\ cv_V # <<>>
    /\ cv_uh' = StudySolution(cv_V, cv_a, cv_l)
    /\ cv_stamp' = [cv_stamp EXCEPT !.uh = cv_stamp.V]
    /\ cv_pc' = StudyAfter(StudyAt("solve"))
    /\ UNCHANGED <<cv_coarse, cv_num_ref, cv_ref, cv_mesh, cv_level, cv_V, cv_a,
                   cv_l, cv_errs, cv_built, cv_redraws, pvars, mvars, bvars, avars,
                   cvars, evars>>

\* errs.append(sqrt (Integrate ( (uh-u_ex)*(uh-u_ex), mesh))); print(errs[-1])
StudyRecord ==
    /\ cv_pc = "record"
    /\ cv_errs' = Append(cv_errs, L2Error(cv_uh, cv_mesh))
    /\ cv_built' = Append(cv_built, [ref |-> cv_ref, level |-> cv_level,
                                     stamp |-> cv_stamp])
    /\ cv_pc' = StudyAfter(StudyAt("record"))
    /\ UNCHANGED <<cv_coarse, cv_num_ref, cv_ref, cv_mesh, cv_level, cv_V, cv_a,
                   cv_l, cv_uh, cv_stamp, cv_redraws, pvars, mvars, bvars, avars,
                   cvars, evars>>

\* scene.Redraw()
StudyRedraw ==
    /\ cv_pc = "redraw"
    /\ cv_redraws' = cv_redraws + 1
    /\ cv_pc' = StudyAfter(StudyAt("redraw"))
    /\ UNCHANGED <<cv_coarse, cv_num_ref, cv_ref, cv_mesh, cv_level, cv_V, cv_a,
                   cv_l, cv_uh, cv_errs, cv_stamp, cv_built, pvars, mvars, bvars,
                   avars, cvars, evars>>

\* mesh.Refine()
StudyRefine ==
    /\ cv_pc = "refine"
    /\ cv_mesh' = Refine(cv_mesh)
    /\ cv_level' = cv_level + 1
    /\ cv_pc' = StudyAfter(StudyAt("refine"))
    /\ UNCHANGED <<cv_coarse, cv_num_ref, cv_ref, cv_V, cv_a, cv_l, cv_uh, cv_errs,
                   cv_stamp, cv_built, cv_redraws, pvars, mvars, bvars, avars,
                   cvars, evars>>

NextStudy ==
    \/ StudyFor
    \/ StudyMakeSpace
    \/ StudyAssembleA
    \/ StudyAssembleL
    \/ StudySolve
    \/ StudyRecord
    \/ StudyRedraw
    \/ StudyRefine

InitConvergence ==
    /\ InitStudy
    /\ IdleParabolic /\ IdleMCF /\ IdleBVP /\ IdleScatter /\ IdleClock /\ IdleEoc

SpecStudy == InitConvergence /\ [][NextStudy]_vars

(***************************************************************************)
(* compute_eoc(errs, fac) of surface_pdes.ipynb and the table made of its  *)
(* result.  Errors and fac are exact rationals; log(q)/log(fac) is the     *)
(* exact rational when q and fac are powers of two and is kept as the      *)
(* pair (q, fac) otherwise.                                                *)
(***************************************************************************)
\* longest list errs
MaxErrs == 3

\* errors: positive numbers
ErrValues == {ROne, Rat(1, 4), Rat(1, 16), Rat(3, 16), Rat(1, 64)}

\* fac = 2 is the default
Facs == {FromInt(2), FromInt(4)}

RECURSIVE ListsUpTo(_)
ListsUpTo(n) ==
    IF n = 0 THEN {<<>>}
    ELSE LET shorter == ListsUpTo(n - 1)
         IN  shorter \cup {Append(list, e) : list \in shorter, e \in ErrValues}

\* np.inf
Infinity == "inf"

\* n is a power of two
RECURSIVE IsPowerOfTwo(_)
IsPowerOfTwo(n) == n = 1 \/ (n > 1 /\ n % 2 = 0 /\ IsPowerOfTwo(n \div 2))

\* the exponent of the power of two n
RECURSIVE Exponent(_)
Exponent(n) == IF n = 1 THEN 0 ELSE 1 + Exponent(n \div 2)

\* np.log(q)/np.log(base) for q > 0, base > 1
LogOver(q, base) ==
    IF /\ IsPowerOfTwo(q[1]) /\ IsPowerOfTwo(q[2])
       /\ base[2] = 1 /\ IsPowerOfTwo(base[1])
    THEN Rat(Exponent(q[1]) - Exponent(q[2]), Exponent(base[1]))
    ELSE [log |-> q, over_log |-> base]

\* arr[:-1]
ButLast(arr) == SubSeq(arr, 1, Len(arr) - 1)

\* arr[1:]
ButFirst(arr) == SubSeq(arr, 2, Len(arr))

\* np.insert(arr, at, value): value comes before the entry of index at
Insert(arr, at, value) ==
    SubSeq(arr, 1, at) \o <<value>> \o SubSeq(arr, at + 1, Len(arr))

\* compute_eoc with the quotient of the later by the earlier error
compute_eoc_inverted(errs, fac) ==
    LET upper == ButLast(errs)
        lower == ButFirst(errs)
        eocs == [i \in 1..Len(upper) |-> LogOver(RDiv(lower[i], upper[i]), fac)]
    IN  Insert(eocs, 0, Infinity)

\* eocs = np.log(np.array(errs)[:-1]/np.array(errs)[1:])/np.log(fac)
\* eocs = np.insert(eocs, 0, np.inf)
compute_eoc(errs, fac) ==
    LET upper == ButLast(errs)
        lower == ButFirst(errs)
        eocs == [i \in 1..Len(upper) |-> LogOver(RDiv(upper[i], lower[i]), fac)]
    IN  Insert(eocs, 0, Infinity)

\* the arguments of a call
InitCall ==
    \E list \in ListsUpTo(MaxErrs), base \in Facs :
        /\ eoc_errs = list
        /\ eoc_fac = base
        /\ eoc_out = <<>>
        /\ eoc_table = <<>>
        /\ eoc_pc = "call"

\* eocs = compute_eoc(errs); print(eocs); print(errs)
CallComputeEoc ==
    /\ eoc_pc = "call"
    /\ eoc_out' = compute_eoc(eoc_errs, eoc_fac)
    /\ eoc_pc' = "returned"
    /\ UNCHANGED <<eoc_errs, eoc_fac, eoc_table, pvars, mvars, bvars, avars, cvars,
                   kvars>>

\* table = pd.DataFrame({'Error': errs, 'EOC' : eocs}): columns of equal
\* length make the rows, columns of different length raise ValueError
Tabulate ==
    /\ eoc_pc = "returned"
    /\ IF Len(eoc_errs) = Len(eoc_out)
       THEN /\ eoc_table' = [i \in 1..Len(eoc_errs) |->
                                [Error |-> eoc_errs[i], EOC |-> eoc_out[i]]]
            /\ eoc_pc' = "shown"
       ELSE /\ eoc_pc' = "error"
            /\ UNCHANGED eoc_table
    /\ UNCHANGED <<eoc_errs, eoc_fac, eoc_out, pvars, mvars, bvars, avars, cvars,
                   kvars>>

NextEoc ==
    \/ CallComputeEoc
    \/ Tabulate

InitEoc ==
    /\ InitCall
    /\ IdleParabolic /\ IdleMCF /\ IdleBVP /\ IdleScatter /\ IdleClock /\ IdleStudy

SpecEoc == InitEoc /\ [][NextEoc]_vars

(***************************************************************************)
(* Properties of the implicit Euler loops (specification Spec)             *)
(***************************************************************************)
InLoop == pc \in {"loop", "done"}

\* a pass through the loop body is about to be / has been made
StepTaken == pc = "loop" /\ nupdates' = nupdates + 1

Free(d) == fes.free[d]

\* tend is N * dt for an integer N >= 0
WholeSteps == RDiv(tend, dt)[2] = 1

\* C1: the loop takes a step exactly while time < tend - dt/2 and finishes
\* as soon as time >= tend - dt/2; started at t0 = 0 with tend = N*dt it
\* makes exactly N solution updates.
C1_StepWhileBeforeEnd ==
    /\ [](pc = "done" => ~RLess(time, RSub(tend, RMul(RHalf, dt))))
    /\ [](pc = "done" /\ t0 = RZero /\ WholeSteps
            => FromInt(nupdates) = RDiv(tend, dt))
    /\ [][pc = "loop" =>
            IF RLess(time, RSub(tend, RMul(RHalf, dt)))
            THEN pc' = "loop" /\ nupdates' = nupdates + 1
            ELSE pc' = "done" /\ nupdates' = nupdates /\ gfu' = gfu]_vars

C1_Witness ==
    /\ pc = "done" /\ t0 = RZero /\ WholeSteps
    /\ tend = RMul(FromInt(3), dt)
    /\ nupdates = 3

\* C2: every step replaces u_n by u_n + delta, where delta vanishes at the
\* constrained dofs and the free rows of (M + dt*A) delta equal those of
\* dt*f - dt*A*u_n, with u_n the solution held before the step.
C2_StepSolvesIncrement ==
    [][StepTaken =>
        LET delta == VSub(gfu', gfu)
            Au == MatVec(a_mat, gfu)
            r == [d \in DOMAIN gfu |->
                    FSub(FMul(ToField(dt), f_vec[d]), FMul(ToField(dt), Au[d]))]
            Md == MatVec(m_mat, delta)
            Ad == MatVec(a_mat, delta)
        IN  \A d \in DOMAIN gfu :
                IF Free(d)
                THEN FAdd(Md[d], FMul(ToField(dt), Ad[d])) = r[d]
                ELSE delta[d] = Zero]_vars

C2_Witness == pc = "loop" /\ nupdates >= 2 /\ gfu # gfu_start /\ aform.wind # Zero

\* C3: after any number of steps the constrained (Dirichlet) entries of gfu
\* are those it had after the initial condition was set.
C3_DirichletValuesKept ==
    InLoop => \A d \in DOMAIN gfu : ~Free(d) => gfu[d] = gfu_start[d]

C3_Witness ==
    /\ pc = "done" /\ nupdates >= 3 /\ gfu # gfu_start
    /\ \E d \in DOMAIN gfu : ~Free(d) /\ gfu[d] # Zero

\* C4: zero forcing vector, zero initial solution and zero boundary data:
\* the solution vector is zero after every step.
C4_ZeroStaysZero ==
    (InLoop /\ f_vec = VZero(fes.ndof) /\ gfu_start = VZero(fes.ndof))
        => gfu = VZero(fes.ndof)

C4_Witness ==
    /\ pc = "done" /\ nupdates >= 3
    /\ f_vec = VZero(fes.ndof) /\ gfu_start = VZero(fes.ndof)

\* C5: the matrix with the entries m[k] + dt*a[k] equals the matrix of the
\* combined bilinear form m(u,v) + dt*a(u,v) assembled on the same space.
C5_CombinationIsAssembly ==
    pc \notin {"create", "build"} =>
        mstar = Assemble(FormAdd(MForm, ToField(dt), aform), fes, FALSE, fes.mesh.x)

C5_Witness ==
    /\ pc = "ready" /\ dt # ROne /\ aform.wind # Zero
    /\ \E k \in DOMAIN mstar.val : mstar.val[k] # m_mat.val[k]

\* C6: m.mat, a.mat and mstar have the same sparsity pattern and the same
\* number of stored entries, which is the length of the value array;
\* writing the values of mstar leaves its pattern as it was.
C6_SamePattern ==
    /\ m_mat.pat = a_mat.pat
    /\ nze(m_mat) = Len(AsVector(m_mat))
    /\ nze(a_mat) = Len(AsVector(a_mat))
    /\ pc # "create" =>
          /\ mstar.pat = m_mat.pat
          /\ nze(mstar) = nze(m_mat) /\ nze(mstar) = nze(a_mat)
          /\ nze(mstar) = Len(AsVector(mstar))

C6_Witness ==
    /\ pc = "force" /\ nze(mstar) > fes.ndof
    /\ \E k \in DOMAIN mstar.val : mstar.val[k] # Zero

\* C7: M, A and f are assembled once and M* is factorized once before the
\* loop; no step assembles, modifies or re-factorizes a.mat, m.mat, mstar,
\* invmstar or f.vec.  A step changes the solution vector, the step counter
\* and the time (and hands samples to the output sinks gfut and vtk).
C7_OperatorsKept ==
    [][StepTaken =>
        /\ a_mat' = a_mat /\ m_mat' = m_mat /\ mstar' = mstar
        /\ invmstar' = invmstar /\ f_vec' = f_vec
        /\ UNCHANGED <<fes, aform, dt, u0, params, variant, gfu_start>>]_vars

C7_Witness == pc = "loop" /\ nupdates >= 2 /\ f_vec # VZero(fes.ndof) /\ gfu # gfu_start

\* one of the two functions has been called
Called == InLoop /\ variant \in {"TimeStepping", "TimeSteppingVTK"}

\* C25: TimeStepping and TimeSteppingVTK enter the loop with the solution
\* reset to initial_cond whenever an initial condition is passed, the
\* number 0 included, and with the contents gfu had before the call only
\* when initial_cond is None.
C25_ResetWheneverPassed ==
    Called =>
        gfu_start = IF initial_cond = "None"
                    THEN Interpolate(u0, fes)
                    ELSE Interpolate(initial_cond, fes)

\* the number of dt-intervals between t0 and tend
Intervals == RDiv(RSub(tend, t0), dt)

\* C24: for every start time t0 the simulated time after k steps is
\* t0 + k*dt, and the loop makes as many steps as there are dt-intervals
\* between t0 and tend.
C24_TimeStartsAtT0 ==
    Called =>
        /\ time = RAdd(t0, RMul(FromInt(nupdates), dt))
        /\ (pc = "done" /\ Intervals[2] = 1 /\ Intervals[1] >= 0) =>
              nupdates = Intervals[1]

\* the solution after one update of u, and after k updates
UpdatedFrom(u) ==
    VAdd(u, InvApply(invmstar,
                     VSub(VScale(ToField(dt), f_vec),
                          VScale(ToField(dt), MatVec(a_mat, u)))))

RECURSIVE Stepped(_, _)
Stepped(u, k) == IF k = 0 THEN u ELSE Stepped(UpdatedFrom(u), k - 1)

\* the number of passes of a loop that is at counter c and time t
RECURSIVE PassesFrom(_, _)
PassesFrom(c, t) ==
    IF RLess(t, RSub(tend, RMul(RHalf, dt)))
    THEN PassesFrom(c + 1, RMul(FromInt(c + 1), dt))
    ELSE c

\* C23: TimeStepping and TimeSteppingVTK, started from the same solution
\* with the same invmstar, initial_cond, t0, tend and dt, make the same
\* number of updates and end with the same gfu: in both the number of
\* updates and the final vector are one function of these inputs, whether
\* the counter is incremented after the update or before it.
C23_SameUpdatesBothLoops ==
    (Called /\ pc = "done") =>
        /\ gfu_start = IF Truthy(initial_cond) THEN Interpolate(initial_cond, fes)
                       ELSE Interpolate(u0, fes)
        /\ nupdates = PassesFrom(0, t0)
        /\ cnt = nupdates
        /\ gfu = Stepped(gfu_start, PassesFrom(0, t0))

C23_Witness ==
    /\ pc = "done" /\ variant = "TimeSteppingVTK" /\ t0 = ROne
    /\ nupdates = 3 /\ gfu # gfu_start /\ gfu # UpdatedFrom(gfu_start)

\* the counters below c at which TimeStepping stores a snapshot
SampledBelow(c) == {b \in 0..(c - 1) : b % sample_int = 0}

\* C26: for t0 = 0, tend = N*dt and nsamples >= 1 TimeStepping holds at most
\* nsamples + 1 snapshots: the first is the state before any step, and one
\* is stored after each step whose counter before the increment is a
\* multiple of sample_int = floor(tend/dt/nsamples) + 1, so that the
\* snapshot taken at counter c is the state after c + 1 steps.
C26_SnapshotsOfTimeStepping ==
    (InLoop /\ variant = "TimeStepping" /\ t0 = RZero /\ WholeSteps) =>
        /\ sample_int = RFloor(RDiv(RDiv(tend, dt), FromInt(nsamples))) + 1
        /\ Len(gfut) <= nsamples + 1
        /\ gfut[1] = gfu_start
        /\ Len(gfut) = 1 + Cardinality(SampledBelow(cnt))
        /\ \A j \in 2..Len(gfut) :
              /\ (j - 2) * sample_int \in SampledBelow(cnt)
              /\ gfut[j] = Stepped(gfu_start, (j - 2) * sample_int + 1)

C26_Witness ==
    /\ pc = "done" /\ variant = "TimeStepping" /\ t0 = RZero /\ WholeSteps
    /\ nsamples = 2 /\ nupdates >= 4 /\ Len(gfut) = 3
    /\ gfut[3] # gfut[2] /\ gfut[2] # gfut[1] /\ gfut[3] # gfu

\* one of the two loops with VTK output runs or has run
InVTKLoop == InLoop /\ variant \in {"inline", "TimeSteppingVTK"}

\* the output a call vtk.Do makes after k steps: the label k*dt and the
\* state after k steps
OutputAfter(k) == <<RMul(FromInt(k), dt), Stepped(gfu_start, k)>>

\* out is the output made after k steps
IsOutputAfter(out, k) ==
    /\ out[1] = RMul(FromInt(k), dt)
    /\ out[2] = Stepped(gfu_start, k)

\* the labels of the outputs from the j-th on are strictly increasing
IncreasingFrom(j) ==
    \A i \in j..(Len(vtk) - 1) : RLess(vtk[i][1], vtk[i + 1][1])

C28_NoStepForShortRun ==
    (InLoop /\ variant = "TimeStepping" /\ t0 = RZero
        /\ RLeq(tend, RMul(RHalf, dt))) =>
        /\ nupdates = 0 /\ cnt = 0 /\ time = RZero
        /\ gfu = gfu_start
        /\ gfu = IF Truthy(initial_cond) THEN Interpolate(initial_cond, fes)
                 ELSE Interpolate(u0, fes)
        /\ gfut = <<gfu>>

C28_Witness ==
    /\ pc = "done" /\ variant = "TimeStepping" /\ t0 = RZero
    /\ tend = RMul(RHalf, dt) /\ initial_cond = "x*x"
    /\ gfut = <<gfu>> /\ gfu # Interpolate(u0, fes)

(***************************************************************************)
(* Properties of the loop control in floats (specification SpecClock)      *)
(***************************************************************************)
\* tend - dt/2 and tend + dt/2 as Python evaluates them
WindowLow == FlSub(Float(clk_tend), HalfStep)

WindowHigh == FlAdd(Float(clk_tend), HalfStep)

\* C22 as stated: for t0 = 0, every dt > 0 and every tend >= 0 the loop
\* terminates, on exit tend - dt/2 <= time < tend + dt/2, and after the
\* exit no further step is taken.
C22_ExitWindowHalfOpen ==
    /\ <>(clk_pc = "done")
    /\ [](clk_pc = "done" =>
            FlLeq(WindowLow, clk_time) /\ FlLess(clk_time, WindowHigh))
    /\ [][clk_pc = "done" => UNCHANGED vars]_vars

\* C22, amended: the loop terminates, on exit
\* tend - dt/2 <= time <= tend + dt/2 with both bounds evaluated in floats,
\* time = cnt * dt, and after the exit no further step is taken.  The upper
\* bound is attained for end times that are odd multiples of dt/2.
C22_ExitWindowClosed ==
    /\ <>(clk_pc = "done")
    /\ [](clk_pc = "done" =>
            /\ FlLeq(WindowLow, clk_time) /\ FlLeq(clk_time, WindowHigh)
            /\ clk_time = FlMulInt(clk_cnt, Float(clk_dt)))
    /\ [][clk_pc = "done" => UNCHANGED vars]_vars

\* dt = 0.005, tend = 0.0175: four steps, time = 0.02 = tend + dt/2
C22_Witness ==
    /\ clk_pc = "done" /\ clk_dt = <<1, 200>> /\ clk_tend = <<7, 400>>
    /\ clk_cnt = 4 /\ clk_time = WindowHigh /\ clk_time = Float(<<1, 50>>)

(***************************************************************************)
(* Properties of the convergence study (specification SpecStudy)           *)
(***************************************************************************)
\* the mesh after k calls of Refine()
RECURSIVE Refined(_, _)
Refined(mesh, k) == IF k = 0 THEN mesh ELSE Refined(Refine(mesh), k - 1)

\* err is the error of the Poisson problem built and solved on the mesh
\* after k refinements
ErrorAtLevel(err, k) ==
    \E mesh \in {Refined(cv_coarse, k)} :
      \E space \in {StudySpace(mesh)} :
        \E mat \in {StudyMatrix(space)}, load \in {StudyLoad(space)} :
            err = L2Error(StudySolution(space, mat, load), mesh)

\* the iterations whose error has been appended
Recorded ==
    IF cv_pc \in {"space", "matrix", "load", "solve", "record"} THEN cv_ref
    ELSE cv_ref + 1

\* C29: the loop makes num_ref + 1 iterations and appends one error in
\* each; the space, the matrix, the right-hand side and the solution of
\* iteration k = 0..num_ref are built on the mesh after exactly k
\* refinements, and so is the error (compared at the loop head and after
\* the loop with the problem solved afresh on that mesh); the mesh is
\* refined once at the end of each iteration, after the error is appended.
C29_OneErrorPerLevel ==
    cv_pc # "idle" =>
        /\ Len(cv_errs) = Recorded
        /\ Len(cv_built) = Len(cv_errs)
        /\ cv_level = IF cv_pc \in {"for", "done"} THEN cv_ref + 1 ELSE cv_ref
        /\ cv_pc = "done" =>
              /\ cv_ref = cv_num_ref
              /\ Len(cv_errs) = cv_num_ref + 1
              /\ cv_level = cv_num_ref + 1
        /\ \A k \in 1..Len(cv_errs) :
              cv_built[k] = [ref |-> k - 1, level |-> k - 1,
                             stamp |-> [V |-> k - 1, a |-> k - 1, l |-> k - 1,
                                        uh |-> k - 1]]
        /\ cv_pc \in {"for", "done"} =>
              \A k \in 1..Len(cv_errs) : ErrorAtLevel(cv_errs[k], k - 1)

\* the study with num_ref = 2 has run: three errors, on 2, 4 and 8 elements
C29_Witness ==
    /\ cv_pc = "done" /\ cv_num_ref = 2 /\ Len(cv_errs) = 3 /\ cv_level = 3
    /\ cv_coarse = Mesh(Coords(<<0, 1, 4>>))
    /\ Len(cv_errs[1].on.x) = 3 /\ Len(cv_errs[2].on.x) = 5
    /\ Len(cv_errs[3].on.x) = 9
    /\ cv_errs[1] # cv_errs[2]

(***************************************************************************)
(* Properties of compute_eoc (specification SpecEoc)                       *)
(***************************************************************************)
\* C30: for a non-empty list errs the array compute_eoc returns is as long
\* as errs, starts with infinity, and has log(errs[i-1]/errs[i])/log(fac)
\* in every later place i; the table of errors and orders is then made row
\* by row.
C30_EocRowByRow ==
    (eoc_pc \in {"returned", "shown", "error"} /\ Len(eoc_errs) > 0) =>
        /\ Len(eoc_out) = Len(eoc_errs)
        /\ eoc_out[1] = Infinity
        /\ \A i \in 2..Len(eoc_errs) :
              eoc_out[i] = LogOver(RDiv(eoc_errs[i - 1], eoc_errs[i]), eoc_fac)
        /\ eoc_pc # "error"
        /\ eoc_pc = "shown" =>
              \A i \in 1..Len(eoc_errs) :
                  eoc_table[i] = [Error |-> eoc_errs[i], EOC |-> eoc_out[i]]

\* errors 1, 1/4, 1/16 give the orders inf, 2, 2
C30_Witness ==
    /\ eoc_pc = "shown"
    /\ eoc_errs = <<ROne, Rat(1, 4), Rat(1, 16)>> /\ eoc_fac = FromInt(2)
    /\ eoc_out = <<Infinity, FromInt(2), FromInt(2)>>
    /\ Len(eoc_table) = 3

(***************************************************************************)
(* Properties of the mean curvature loop (specification SpecMCF)           *)
(***************************************************************************)
\* the reference positions of the mesh
Reference == V.mesh.x

Unit(n, d) == [e \in 1..n |-> IF e = d THEN One ELSE Zero]

\* C8: in step n the matrix of m + tau*a and the right-hand side l are
\* assembled on reference + dXh, with dXh the deformation written by step
\* n-1 (zero before the first step); l is the mass form applied to the
\* previous position X_n.
C8_AssembledOnCurrentGeometry ==
    mcf_pc \in {"update", "solve"} =>
        LET Xn == IF mcf_i = 0 THEN Idh ELSE Xh
            geom == [d \in DOMAIN Reference |-> FAdd(Reference[d], dXh[d])]
            mass == Assemble(Form(One, Zero, Zero), V, FALSE, geom)
        IN  /\ dXh = IF mcf_i = 0 THEN VZero(V.ndof) ELSE VSub(Xh, Idh)
            /\ geom = Xn
            /\ M_mat = Assemble(Form(One, ToField(tau), Zero), V, FALSE, geom)
            /\ l_vec = MatVec(mass, Xn)

C8_Witness ==
    /\ mcf_pc = "solve" /\ mcf_i >= 2
    /\ dXh # VZero(V.ndof)
    /\ l_vec # AssembleLinear(Reference, Reference)

\* C9: Minv.Update() runs after M.Assemble() and before the solve: at the
\* solve Minv is the inverse of the matrix assembled in the same step.
C9_FactorizationCurrent ==
    mcf_pc = "solve" =>
        /\ M_mat = Assemble(Form(One, ToField(tau), Zero), V, FALSE,
                            VAdd(Reference, dXh))
        /\ \A d \in 1..V.ndof :
              InvApply(Minv, MatVec(M_mat, Unit(V.ndof, d))) = Unit(V.ndof, d)

C9_Witness ==
    /\ mcf_pc = "solve" /\ mcf_i >= 2
    /\ M_mat # Assemble(Form(One, ToField(tau), Zero), V, FALSE, Reference)

\* C10: after every step dXh = Xh - Idh, that is reference + deformation =
\* current position, and Idh still holds the reference positions.
C10_DeformationIsDisplacement ==
    /\ mcf_pc # "idle" => Idh = Reference
    /\ (mcf_pc = "advance" \/ (mcf_pc \in {"test", "done"} /\ mcf_i >= 1)) =>
          /\ dXh = [d \in DOMAIN Xh |-> FSub(Xh[d], Idh[d])]
          /\ \A d \in DOMAIN Xh : FAdd(Reference[d], dXh[d]) = Xh[d]

C10_Witness ==
    /\ mcf_pc = "done" /\ mcf_i >= 2
    /\ dXh # VZero(V.ndof) /\ Xh # Idh

\* the number of steps Tend / tau, when it is an integer
StepsToExtinction == RDiv(Tend, tau)

\* C11: the loop starts a step only while t <= Tend - tau, so t never
\* exceeds Tend; with Tend = N*tau for an integer N >= 0 the loop performs
\* exactly N steps and stops with t = Tend.
C11_ExactlyNSteps ==
    /\ mcf_pc # "idle" => ~FlLess(Float(Tend), mcf_t)
    /\ (mcf_pc = "done" /\ StepsToExtinction[2] = 1) =>
          /\ mcf_i = StepsToExtinction[1]
          /\ mcf_t = Float(Tend)

\* C12: the space of the mean curvature solver is built without a
\* constrained region and has only free dofs, the factorisation covers all
\* of them, and the solve of a step gives every entry of Xh its new value:
\* every row of M * Xh = l holds after the solve.
C12_AllDofsFree ==
    mcf_pc # "idle" =>
        /\ \A d \in 1..V.ndof : FreeDofs(V)[d]
        /\ Minv.free = FreeDofs(V)
        /\ mcf_pc = "deform" => MatVec(M_mat, Xh) = l_vec

C12_Witness ==
    /\ mcf_pc = "deform" /\ mcf_i >= 1
    /\ \A d \in 1..V.ndof : Xh[d] # Idh[d] /\ FAdd(Idh[d], dXh[d]) # Xh[d]

\* C16: the incremental update is the implicit Euler step: when the
\* increment delta of a step satisfies the free rows of
\* M* delta = -dt*A*u_n + dt*f, with the assembled M*, and is zero at the
\* constrained dofs, then u_{n+1} = u_n + delta satisfies the free rows of
\* (M + dt*A) u_{n+1} = M u_n + dt*f.
C16_ImplicitEulerStep ==
    [][StepTaken =>
        LET delta == VSub(gfu', gfu)
            Sd == MatVec(mstar, delta)
            Au == MatVec(a_mat, gfu)
            Mu == MatVec(m_mat, gfu)
            Mn == MatVec(m_mat, gfu')
            An == MatVec(a_mat, gfu')
            IncrementEquation ==
                \A d \in DOMAIN gfu :
                    IF Free(d)
                    THEN Sd[d] = FAdd(FNeg(FMul(ToField(dt), Au[d])),
                                      FMul(ToField(dt), f_vec[d]))
                    ELSE delta[d] = Zero
            EulerEquation ==
                \A d \in DOMAIN gfu :
                    Free(d) => FAdd(Mn[d], FMul(ToField(dt), An[d]))
                                 = FAdd(Mu[d], FMul(ToField(dt), f_vec[d]))
        IN  IncrementEquation => EulerEquation]_vars

C16_Witness ==
    /\ pc = "done" /\ nupdates >= 2 /\ gfu # gfu_start
    /\ \E d \in DOMAIN f_vec : f_vec[d] # Zero
    /\ MatVec(mstar, gfu) # MatVec(m_mat, gfu)

\* the order of the statements of the loop: the pairs (statement, next)
StatementOrder ==
    {<<"test", "assembleM">>, <<"test", "done">>,
     <<"assembleM", "assembleL">>, <<"assembleM", "error">>,
     <<"assembleL", "update">>,
     <<"update", "solve">>, <<"update", "error">>,
     <<"solve", "deform">>, <<"deform", "advance">>, <<"advance", "test">>}

\* C19: Minv is used by one operation at a time: Minv changes only in
\* Minv.Update(), which has completed when the solve of the step starts; the
\* solve reads the factorisation of the step's matrix, leaves Minv alone
\* and writes Xh; and the statements follow each other in the order of the
\* loop, so the next Update starts only after the solve has written Xh.
C19_UpdateThenSolve ==
    [][/\ mcf_pc' # mcf_pc => <<mcf_pc, mcf_pc'>> \in StatementOrder
       /\ Minv' # Minv => mcf_pc = "update" /\ Xh' = Xh
       /\ (mcf_pc = "update" /\ mcf_pc' = "solve") =>
             Minv' = Inverse(M_mat, Minv.free) /\ Xh' = Xh
       /\ Xh' # Xh =>
             /\ mcf_pc = "solve" /\ mcf_pc' = "deform"
             /\ Minv' = Minv /\ Minv = Inverse(M_mat, Minv.free)
             /\ Xh' = InvApply(Minv, l_vec)]_vars

C19_Witness ==
    /\ mcf_pc = "update" /\ mcf_i >= 1
    /\ Minv # Inverse(M_mat, Minv.free)
    /\ Xh # Idh /\ dXh = VSub(Xh, Idh)

(***************************************************************************)
(* Properties of the distributed assembly (specification SpecScatter)      *)
(***************************************************************************)
\* the sum of the contributions stored so far to the entry tg
StoredSum(tg) ==
    FSum([e \in 1..(Len(asm_geom) - 1) |->
            FSum([k \in DOMAIN Targets(asm_kind, e) |->
                    IF <<e, k>> \in asm_stored /\ Targets(asm_kind, e)[k] = tg
                    THEN LocalValue(asm_kind, asm_form, asm_geom, e, tg)
                    ELSE Zero])])

\* the matrix and the vector of the sequential assembly
SequentialMatrix == Assemble(asm_form, H1(Mesh(asm_geom), {}), FALSE, asm_geom)

SequentialVector == AssembleLinear(asm_geom, asm_geom)

\* C18: with the element-local assembly distributed over several workers,
\* every interleaving of their scatter steps gives the global matrix and
\* vector of the sequential assembly: at any time each global entry is the
\* sum of the contributions stored to it, none lost or overwritten, and at
\* the end it is the sum over all elements sharing the dof.
C18_ScatterOrderIrrelevant ==
    asm_pc # "idle" =>
        /\ \A tg \in DOMAIN asm_global : asm_global[tg] = StoredSum(tg)
        /\ asm_pc = "done" =>
              /\ asm_stored = {<<e, k>> : e \in 1..(Len(asm_geom) - 1),
                                           k \in DOMAIN Targets(asm_kind, 1)}
              /\ IF asm_kind = "matrix"
                 THEN /\ DOMAIN asm_global =
                            {SequentialMatrix.pat[k] : k \in DOMAIN SequentialMatrix.pat}
                      /\ \A k \in DOMAIN SequentialMatrix.pat :
                            asm_global[SequentialMatrix.pat[k]] = SequentialMatrix.val[k]
                 ELSE /\ DOMAIN asm_global = {<<i>> : i \in 1..Len(asm_geom)}
                      /\ \A i \in 1..Len(asm_geom) :
                            asm_global[<<i>>] = SequentialVector[i]

\* two workers on neighbouring elements, one holding the entry of the
\* shared dof the other one is about to add to
C18_Witness ==
    /\ asm_pc = "scatter" /\ asm_kind = "matrix"
    /\ \E v, w \in Workers :
          /\ asm_task[v].e = 1 /\ asm_task[w].e = 2
          /\ asm_task[v].loaded /\ Target(v) = <<2, 2>>
          /\ ~asm_task[w].loaded /\ Target(w) = <<2, 2>>

(***************************************************************************)
(* Properties of a failing step (specification SpecRaise)                  *)
(***************************************************************************)
\* C17: an error raised inside a step (assembly, update of the
\* factorisation, solve) ends the loop at once: the error reaches the caller,
\* the solution vector keeps the value of the last completed step, the output
\* written before the failing step is left as it was, and nothing runs after
\* the error: no later step and no retry.
C17_ErrorEndsLoop ==
    [][/\ raised # "none" => UNCHANGED vars
       /\ (raised = "none" /\ raised' # "none") =>
             /\ pc' = "error" \/ mcf_pc' = "error"
             /\ gfu' = gfu /\ nupdates' = nupdates
             /\ gfut' = gfut /\ vtk' = vtk
             /\ Xh' = Xh /\ dXh' = dXh /\ mcf_i' = mcf_i /\ mcf_t' = mcf_t
             /\ redraws' = redraws]_vars

C17_Witness ==
    /\ pc = "error" /\ raised = "NgException" /\ variant = "TimeSteppingVTK"
    /\ nupdates >= 1 /\ cnt = nupdates + 1
    /\ gfu # gfu_start /\ Len(vtk) >= 2
    /\ vtk[Len(vtk)][2] = gfu

(***************************************************************************)
(* Properties of the boundary value problems (specification SpecBVP)       *)
(***************************************************************************)
Dofs(space) == 1..space.ndof

\* the dofs FreeDofs marks free, and the dofs on a region of the flag
FreeSet(space) == {d \in Dofs(space) : FreeDofs(space)[d]}

OnRegions(space, flag) == {d \in Dofs(space) : BoundaryRegion(space.mesh, d) \in flag}

Partitioned(space, flag) ==
    /\ DOMAIN FreeDofs(space) = Dofs(space)
    /\ \A d \in Dofs(space) : FreeDofs(space)[d] \in BOOLEAN
    /\ FreeSet(space) \cap OnRegions(space, flag) = {}
    /\ FreeSet(space) \cup OnRegions(space, flag) = Dofs(space)
    /\ Cardinality(FreeSet(space)) + Cardinality(OnRegions(space, flag)) = space.ndof

\* C13: for every choice of constrained boundary regions each dof is either
\* free or constrained, never both: FreeDofs[dof] is true exactly for the
\* dofs that lie on no constrained region, and the two sets cover all dofs.
C13_FreeConstrainedPartition ==
    bvp_pc # "idle" =>
        /\ Partitioned(bvp_fes, bvp_flag)
        /\ fs2 # NoSpace => Partitioned(fs2, {})

C13_Witness ==
    /\ bvp_flag = {"right"} /\ bvp_fes.ndof = 4 /\ fs2 # NoSpace
    /\ FreeSet(bvp_fes) = {1, 2, 3}

\* C14: the dirichlet flag does not change the number of dofs: fes and fs2
\* on the same mesh have the same ndof, and a space built again on the mesh,
\* with any flag, has this ndof too.
C14_FlagKeepsNdof ==
    bvp_pc # "idle" =>
        /\ fs2 # NoSpace => fs2.ndof = bvp_fes.ndof /\ fs2.mesh = bvp_fes.mesh
        /\ \A flag \in SUBSET GetBoundaries(bvp_fes.mesh) :
              H1(bvp_fes.mesh, flag).ndof = bvp_fes.ndof

C14_Witness ==
    /\ bvp_pc = "extend" /\ bvp_flag = {"left", "right"}
    /\ fs2.ndof = 4 /\ Cardinality(FreeSet(bvp_fes)) = 2

\* the states after gfu.vec.data += a.mat.Inverse(freedofs=fes.FreeDofs()) * r
SolvedBVP == bvp_pc \in {"done", "spaces", "raised"}

\* C15: after the inhomogeneous Dirichlet solve the constrained entries of
\* gfu are those of the boundary extension u_D, the free rows of A*gfu equal
\* those of f, and gfu = u_D + blockdiag(A_FF^-1, 0) * (f - A*u_D).
C15_InhomogeneousSolve ==
    SolvedBVP =>
        LET Au == MatVec(bvp_a, bvp_gfu)
            rD == VSub(bvp_f, MatVec(bvp_a, uD))
        IN  /\ \A d \in Dofs(bvp_fes) :
                  IF FreeDofs(bvp_fes)[d] THEN Au[d] = bvp_f[d]
                  ELSE bvp_gfu[d] = uD[d]
            /\ bvp_gfu = VAdd(uD, InvApply(Inverse(bvp_a, FreeDofs(bvp_fes)), rD))

C15_Witness ==
    /\ bvp_pc = "done" /\ bvp_flag = {"left", "right"} /\ bvp_fes.ndof = 4
    /\ uD[1] # Zero /\ uD[4] # Zero /\ uD[1] # uD[4]
    /\ bvp_gfu # uD

\* a gradient on surface elements without the Trace operator
Untraced(term) == term.vb = "ds" /\ ~term.trace /\ term.form.diff # Zero

\* C20: Assemble() of a bilinear form on a surface mesh with the integrand
\* grad(u)*grad(v)*ds, without Trace, ends with an exception and produces
\* no matrix: a.mat is still the matrix assembled before, and the cell never
\* completes.
C20_UntracedRaises ==
    /\ (\E k \in DOMAIN bvp_terms : Untraced(bvp_terms[k])) =>
          /\ raised = "NgException" /\ bvp_pc = "raised"
          /\ bvp_a = Assemble(FirstTerm.form, bvp_fes, BVPSymmetric, bvp_fes.mesh.x)
    /\ bvp_kind = "surface" => bvp_pc # "done"
    /\ raised # "none" => \E k \in DOMAIN bvp_terms : Untraced(bvp_terms[k])

C20_Witness ==
    /\ bvp_pc = "raised" /\ raised = "NgException"
    /\ Len(bvp_terms) = 2 /\ bvp_gfu # uD

====
